---- MODULE Spec2Model ----
(***************************************************************************)
(* The OAuth2 web server of github-mcp-web: the State Store (the sessions  *)
(* map), the /auth/github and /auth/callback handlers, the session reaper  *)
(* and the HTTP MCP endpoint (/mcp/tools/list, /mcp/tools/call); and the   *)
(* stdio MCP server (class GitHubMCPServer).  JavaScript strings are       *)
(* sequences of one-character strings, so that percent-encoding and        *)
(* truthiness are computed as the code computes them.  Time is Date.now()  *)
(* in milliseconds.                                                        *)
(***************************************************************************)
EXTENDS Integers, Sequences, FiniteSets, TLC

(* ---------------------------- bounds ----------------------------------- *)
\* number of /auth/github requests served
MaxAuth == 2
\* number of /auth/callback requests in flight (awaiting GitHub) at a time
MaxReq == 2
\* the clock advances in steps of TenMinutes \div Granularity milliseconds
Granularity == 2
\* number of clock steps
MaxTicks == 4
\* number of tool invocations of the stdio server in flight at a time
MaxCalls == 2

(* ------------------------- JavaScript values --------------------------- *)
\* the value of a query parameter or object property that is not there
undefined == <<"undefined">>

\* JavaScript truthiness of a string-or-undefined value: if (error), !code
Truthy(v) == v # undefined /\ v # <<>>

\* a || b
Or(a, b) == IF Truthy(a) THEN a ELSE b

\* an encoding that escapes nothing
EscapeCharNone(c) == <<c>>

\* the percent escape of one character (the reserved ones a query can hold)
EscapeChar(c) ==
  CASE c = " " -> <<"%", "2", "0">>
    [] c = "&" -> <<"%", "2", "6">>
    [] c = "," -> <<"%", "2", "C">>
    [] c = "%" -> <<"%", "2", "5">>
    [] c = "=" -> <<"%", "3", "D">>
    [] c = ":" -> <<"%", "3", "A">>
    [] c = "/" -> <<"%", "2", "F">>
    [] c = "+" -> <<"%", "2", "B">>
    [] OTHER -> <<c>>

RECURSIVE encodeURIComponent(_)
encodeURIComponent(s) ==
  IF s = <<>> THEN <<>> ELSE EscapeChar(Head(s)) \o encodeURIComponent(Tail(s))

\* the character a percent escape stands for
UnescapeChar(e) ==
  CASE e = <<"%", "2", "0">> -> " "
    [] e = <<"%", "2", "6">> -> "&"
    [] e = <<"%", "2", "C">> -> ","
    [] e = <<"%", "2", "5">> -> "%"
    [] e = <<"%", "3", "D">> -> "="
    [] e = <<"%", "3", "A">> -> ":"
    [] e = <<"%", "2", "F">> -> "/"
    [] e = <<"%", "2", "B">> -> "+"
    [] OTHER -> "?"

\* what the browser's URLSearchParams reads back from a query value
RECURSIVE decodeURIComponent(_)
decodeURIComponent(s) ==
  IF s = <<>> THEN <<>>
  ELSE IF Head(s) = "%" /\ Len(s) >= 3
       THEN <<UnescapeChar(SubSeq(s, 1, 3))>> \o decodeURIComponent(SubSeq(s, 4, Len(s)))
       ELSE <<Head(s)>> \o decodeURIComponent(Tail(s))

(* ----------------------------- constants ------------------------------- *)
\* 10 * 60 * 1000: the expiry window and the sweep interval, in ms
TenMinutes == 10 * 60 * 1000

TickMs == TenMinutes \div Granularity
MaxTime == MaxTicks * TickMs

\* the error codes the callback handler writes itself
missing_code_or_state ==
  <<"m","i","s","s","i","n","g","_","c","o","d","e","_","o","r","_","s","t","a","t","e">>
invalid_state == <<"i","n","v","a","l","i","d","_","s","t","a","t","e">>
oauth_exchange_failed ==
  <<"o","a","u","t","h","_","e","x","c","h","a","n","g","e","_","f","a","i","l","e","d">>
\* the error code GitHub sends when the user denies the authorization
access_denied == <<"a","c","c","e","s","s","_","d","e","n","i","e","d">>

\* the default of req.query.scopes
repo_user == <<"r","e","p","o",",","u","s","e","r">>

(* ---------------------- the texts of the programs ---------------------- *)
\* the tool names of the web server
get_user == <<"g","e","t","_","u","s","e","r">>
list_repositories == <<"l","i","s","t","_","r","e","p","o","s","i","t","o","r","i","e","s">>
get_repository == <<"g","e","t","_","r","e","p","o","s","i","t","o","r","y">>
list_issues == <<"l","i","s","t","_","i","s","s","u","e","s">>
create_issue == <<"c","r","e","a","t","e","_","i","s","s","u","e">>
list_pull_requests == <<"l","i","s","t","_","p","u","l","l","_","r","e","q","u","e","s","t","s">>
get_file_contents == <<"g","e","t","_","f","i","l","e","_","c","o","n","t","e","n","t","s">>
list_commits == <<"l","i","s","t","_","c","o","m","m","i","t","s">>

\* the error texts of the web server
AccessTokenRequired ==
  <<"A","c","c","e","s","s"," ","t","o","k","e","n"," ","r","e","q","u","i","r","e","d">>
ToolNameIsRequired ==
  <<"T","o","o","l"," ","n","a","m","e"," ","i","s"," ","r","e","q","u","i","r","e","d">>
OwnerAndRepoAreRequired ==
  <<"o","w","n","e","r"," ","a","n","d"," ","r","e","p","o"," ","a","r","e"," ","r","e","q","u",
    "i","r","e","d">>
OwnerRepoAndTitleAreRequired ==
  <<"o","w","n","e","r",","," ","r","e","p","o",","," ","a","n","d"," ","t","i","t","l","e"," ",
    "a","r","e"," ","r","e","q","u","i","r","e","d">>
OwnerRepoAndPathAreRequired ==
  <<"o","w","n","e","r",","," ","r","e","p","o",","," ","a","n","d"," ","p","a","t","h"," ","a",
    "r","e"," ","r","e","q","u","i","r","e","d">>
UnknownToolPrefix == <<"U","n","k","n","o","w","n"," ","t","o","o","l",":"," ">>
ToolExecutionFailed ==
  <<"T","o","o","l"," ","e","x","e","c","u","t","i","o","n"," ","f","a","i","l","e","d">>
ToolExecutionError ==
  <<"T","o","o","l"," ","e","x","e","c","u","t","i","o","n"," ","e","r","r","o","r",":">>

\* the fixed parts of the upstream request
ApiBase ==
  <<"h","t","t","p","s",":","/","/","a","p","i",".","g","i","t","h","u","b",".","c","o","m",
    "/">>
Bearer == <<"B","e","a","r","e","r">>
AcceptGithubJson ==
  <<"a","p","p","l","i","c","a","t","i","o","n","/","v","n","d",".","g","i","t","h","u","b","+",
    "j","s","o","n">>
UserAgentWeb == <<"G","i","t","H","u","b","-","M","C","P","-","S","e","r","v","e","r">>
RequestFailedPrefix ==
  <<"R","e","q","u","e","s","t"," ","f","a","i","l","e","d"," ","w","i","t","h"," ","s","t","a",
    "t","u","s"," ","c","o","d","e"," ">>
NetworkError == <<"N","e","t","w","o","r","k"," ","E","r","r","o","r">>
text == <<"t","e","x","t">>

\* the stdio server: of its tools, the model has the code exchange and one
\* tool of the GitHub API; the other handlers are built like handleGetRepo
github_exchange_code ==
  <<"g","i","t","h","u","b","_","e","x","c","h","a","n","g","e","_","c","o","d","e">>
github_get_repo == <<"g","i","t","h","u","b","_","g","e","t","_","r","e","p","o">>
github_get_oauth_url ==
  <<"g","i","t","h","u","b","_","g","e","t","_","o","a","u","t","h","_","u","r","l">>

\* handleGetOAuthURL: the fixed parts of its URL and of its result
AuthorizeUrlStdio ==
  <<"h","t","t","p","s",":","/","/","g","i","t","h","u","b",".","c","o","m","/","l","o","g",
    "i","n","/","o","a","u","t","h","/","a","u","t","h","o","r","i","z","e","?">>
RedirectUriStdio ==
  <<"h","t","t","p",":","/","/","l","o","c","a","l","h","o","s","t",":","3","0","0","0","/",
    "a","u","t","h","/","c","a","l","l","b","a","c","k">>
ClientIdKey == <<"c","l","i","e","n","t","_","i","d">>
RedirectUriKey == <<"r","e","d","i","r","e","c","t","_","u","r","i">>
ScopeKey == <<"s","c","o","p","e">>
StateKey == <<"s","t","a","t","e">>
AuthorizationUrlKey == <<"a","u","t","h","o","r","i","z","a","t","i","o","n","_","u","r","l">>
InstructionsKey == <<"i","n","s","t","r","u","c","t","i","o","n","s">>
Instructions ==
  <<"V","i","s","i","t"," ","t","h","i","s"," ","U","R","L"," ","t","o"," ","a","u","t","h",
    "o","r","i","z","e"," ","t","h","e"," ","a","p","p","l","i","c","a","t","i","o","n",",",
    " ","t","h","e","n"," ","u","s","e"," ","t","h","e"," ","a","u","t","h","o","r","i","z",
    "a","t","i","o","n"," ","c","o","d","e"," ","w","i","t","h"," ","g","i","t","h","u","b",
    "_","e","x","c","h","a","n","g","e","_","c","o","d","e"," ","t","o","o","l">>

GithubApiBase ==
  <<"h","t","t","p","s",":","/","/","a","p","i",".","g","i","t","h","u","b",".","c","o","m">>
AccessTokenUrl ==
  <<"h","t","t","p","s",":","/","/","g","i","t","h","u","b",".","c","o","m","/","l","o","g","i",
    "n","/","o","a","u","t","h","/","a","c","c","e","s","s","_","t","o","k","e","n">>
ApplicationJson == <<"a","p","p","l","i","c","a","t","i","o","n","/","j","s","o","n">>
ApiVersion == <<"2","0","2","2","-","1","1","-","2","8">>
UserAgentStdio ==
  <<"M","C","P","-","G","i","t","H","u","b","-","S","e","r","v","e","r","/","1",".","0",".",
    "0">>
UnknownToolStdio == <<"U","n","k","n","o","w","n"," ","t","o","o","l",":"," ">>
GitHubApiErrorPrefix == <<"G","i","t","H","u","b"," ","A","P","I"," ","e","r","r","o","r",":"," ">>
\* `OAuth2 exchange failed: ${error}`; the text after the name of the error
\* depends on the failure
ExchangeFailed ==
  <<"O","A","u","t","h","2"," ","e","x","c","h","a","n","g","e"," ","f","a","i","l","e","d",":",
    " ","A","x","i","o","s","E","r","r","o","r">>
AuthenticationSuccessful ==
  <<"O","A","u","t","h","2"," ","a","u","t","h","e","n","t","i","c","a","t","i","o","n"," ","s","u","c","c","e","s","s","f","u","l","!"," ","Y","o","u"," ","c","a","n"," ","n","o","w"," ","u","s","e"," ","G","i","t","H","u","b"," ","A","P","I"," ","t","o","o","l","s",".">>

\* process.env.GITHUB_ACCESS_TOKEN
ACCESS_TOKEN == <<"x">>

\* process.env.GITHUB_CLIENT_ID, of the web server and of the stdio server
GITHUB_CLIENT_ID == <<"I","v","1">>
CLIENT_ID == <<"I","v","1">>

\* process.env.REDIRECT_URI || `http://localhost:${PORT}/auth/callback`
REDIRECT_URI ==
  <<"h","t","t","p",":","/","/","l","o","c","a","l","h","o","s","t",":","3","0","0","0","/",
    "a","u","t","h","/","c","a","l","l","b","a","c","k">>

\* the parts of the authorization URL
AuthorizeUrl ==
  <<"h","t","t","p","s",":","/","/","g","i","t","h","u","b",".","c","o","m","/","l","o","g",
    "i","n","/","o","a","u","t","h","/","a","u","t","h","o","r","i","z","e","?">>
ClientIdEquals == <<"c","l","i","e","n","t","_","i","d","=">>
RedirectUriEquals == <<"r","e","d","i","r","e","c","t","_","u","r","i","=">>
ScopeEquals == <<"s","c","o","p","e","=">>
StateEquals == <<"s","t","a","t","e","=">>

(* ------------------------------ inputs --------------------------------- *)
\* Math.random().toString(36).substring(7): a string of base-36 digits,
\* empty when the expansion of the random number has at most 5 digits
\* (0.5 is "0.i")
StateTokens == {<<>>, <<"a">>}

\* req.query.scopes of /auth/github
ScopeParams == {undefined, <<"u","s","e","r">>}

\* req.query of /auth/callback
CodeParams == {undefined, <<"c">>}
StateParams == {undefined} \cup StateTokens
ErrorParams == {undefined, <<>>, access_denied, <<"a", "&">>}
Queries == [code : CodeParams, state : StateParams, error : ErrorParams]

\* what the token endpoint answers: a rejected promise (non-2xx status or
\* network error), or a 2xx response whose data may lack access_token
AccessTokens == {<<"t">>}
ExchangeResponses ==
  {[ok |-> FALSE, access_token |-> undefined, scope |-> undefined]} \cup
  {[ok |-> TRUE, access_token |-> undefined, scope |-> undefined]} \cup
  [ok : {TRUE}, access_token : AccessTokens, scope : {<<>>, <<"r","e","p","o">>}]

\* what GET https://api.github.com/user answers
Users == {<<"o">>}
IdentityResponses ==
  {[ok |-> FALSE, login |-> undefined]} \cup [ok : {TRUE}, login : Users]

Slots == 1..MaxReq

(* ------------------------------- state --------------------------------- *)
VARIABLES
  sessions,     \* the sessions Map, as its set of entries [state, timestamp, scopes]
  now,          \* Date.now()
  nextSweep,    \* when the setInterval callback fires next
  issued,       \* per state: the redirects to GitHub issued with it
  requested,    \* per state: the scopes parameters of the redirects issued with it
                \* since the Map last was without the state
  accepted,     \* per state: the callbacks that passed state validation with it
  pc,           \* per callback in flight: the await its handler is suspended at
  query,        \* per callback in flight: req.query
  sessionData,  \* per callback in flight: the local sessionData
  tokenData,    \* per callback in flight: tokenResponse.data
  trace,        \* per callback in flight: its side effects so far, in order
  sent,         \* the callback answered last: its query, redirect and side effects
  redirect,     \* the /auth/github request answered last: scopes, state, Location
  mcp,          \* the request of the HTTP MCP endpoint served now or last, with the
                \* lines its handler wrote to the log
  authorization,\* stdio server: githubAPI.defaults.headers.common['Authorization']
  currentUser,  \* stdio server: this.currentUser
  stdio,        \* stdio server, per tool invocation: its locals and its result
  client        \* browser client: accessToken, user, localStorage and the
                \* method of the app that ran last

oauthVars == <<sessions, now, nextSweep, issued, requested, accepted, pc, query, sessionData,
               tokenData, trace, sent, redirect>>
mcpVars == <<mcp>>
stdioVars == <<authorization, currentUser, stdio>>
clientVars == <<client>>

vars == <<oauthVars, mcpVars, stdioVars, clientVars>>

NoQuery == [code |-> undefined, state |-> undefined, error |-> undefined]
NoData == [ok |-> FALSE, access_token |-> undefined, scope |-> undefined]
NoSession == [state |-> undefined, timestamp |-> 0, scopes |-> undefined]
NoResponse ==
  [kind |-> "none", error |-> undefined, access_token |-> undefined,
   user |-> undefined, scope |-> undefined]
NothingSent == [query |-> NoQuery, response |-> NoResponse, trace |-> <<>>]

\* an optional value is a sequence of length 0 (undefined, null) or 1
NoHttpResponse == [status |-> 0, body |-> [pending |-> TRUE]]
NoCall ==
  [pc |-> "idle", route |-> "none", authorization |-> undefined, token |-> undefined,
   name |-> undefined, args |-> <<>>, requests |-> <<>>, outcome |-> <<>>,
   response |-> NoHttpResponse, log |-> <<>>]

StdioSlots == 1..MaxCalls
NoResult == [thrown |-> FALSE, body |-> [pending |-> TRUE]]
NoInvocation ==
  [pc |-> "idle", name |-> undefined, args |-> <<>>, requests |-> <<>>,
   tokenData |-> <<>>, result |-> NoResult]

\* the web server after it was started
InitWeb ==
  /\ sessions = {}
  /\ now = 0
  /\ nextSweep = TenMinutes
  /\ issued = [s \in StateTokens |-> 0]
  /\ requested = [s \in StateTokens |-> {}]
  /\ accepted = [s \in StateTokens |-> 0]
  /\ pc = [r \in Slots |-> "idle"]
  /\ query = [r \in Slots |-> NoQuery]
  /\ sessionData = [r \in Slots |-> NoSession]
  /\ tokenData = [r \in Slots |-> NoData]
  /\ trace = [r \in Slots |-> <<>>]
  /\ sent = NothingSent
  /\ redirect = <<>>
  /\ mcp = NoCall

\* the config of a request of this.githubAPI: the defaults of the instance,
\* the Authorization header as it is set when the request is made
githubAPI(auth, method, path, data) ==
  [method |-> method,
   url |-> GithubApiBase \o path,
   headers |-> [Authorization |-> auth,
                Accept |-> AcceptGithubJson,
                ApiVersion |-> ApiVersion,
                UserAgent |-> UserAgentStdio],
   data |-> data]

\* the constructor: the token of the environment becomes the default
\* Authorization header and initializeUser() is started, not awaited
GitHubMCPServer ==
  /\ authorization = Bearer \o <<" ">> \o ACCESS_TOKEN
  /\ currentUser = <<>>
  /\ stdio = [r \in StdioSlots |->
                IF r = 1
                THEN [NoInvocation EXCEPT
                        !.pc = "initializing",
                        !.requests = <<githubAPI(Bearer \o <<" ">> \o ACCESS_TOKEN,
                                                 "GET", <<"/","u","s","e","r">>, <<>>)>>]
                ELSE NoInvocation]

\* localStorage of the origin: the keys the app uses, each absent or a string
StorageKeys == {"github_access_token", "github_user", "github_scope"}
NoStorage == [k \in StorageKeys |-> <<>>]

\* the browser client before its page is loaded: nothing stored
InitClient ==
  client = [accessToken |-> <<>>, user |-> [t |-> "null", v |-> <<>>],
            storage |-> NoStorage, op |-> "none"]

\* both servers after they were started, and a browser that has not yet
\* loaded the page
Init ==
  /\ InitWeb
  /\ GitHubMCPServer
  /\ InitClient

(* --------------------------- the sessions Map -------------------------- *)
\* a check that looks whether the map holds anything, not this key
sessionsHasAny(sess, s) == sess # {}

\* sessions.has / the truthiness of sessions.get(state)
sessionsHas(sess, s) == \E e \in sess : e.state = s

\* sessions.get(state); NoSession stands for the undefined of an absent key
sessionsGet(sess, s) ==
  IF \E e \in sess : e.state = s THEN CHOOSE e \in sess : e.state = s ELSE NoSession

sessionsSet(sess, s, ts, sc) ==
  {e \in sess : e.state # s} \cup {[state |-> s, timestamp |-> ts, scopes |-> sc]}

\* a delete that removes nothing
sessionsDeleteNothing(sess, s) == sess

sessionsDelete(sess, s) == {e \in sess : e.state # s}

Pending == {e.state : e \in sessions}

RECURSIVE SumOver(_, _)
SumOver(f, S) ==
  IF S = {} THEN 0
  ELSE LET x == CHOOSE y \in S : TRUE IN f[x] + SumOver(f, S \ {x})

Issued == SumOver(issued, StateTokens)

(* ----------------------------- /auth/github ---------------------------- *)
\* the Location of the redirect to GitHub
githubAuthUrl(scopes, state) ==
  AuthorizeUrl
  \o ClientIdEquals \o GITHUB_CLIENT_ID \o <<"&">>
  \o RedirectUriEquals \o encodeURIComponent(REDIRECT_URI) \o <<"&">>
  \o ScopeEquals \o encodeURIComponent(scopes) \o <<"&">>
  \o StateEquals \o state

\* GET /auth/github?scopes=...: store the state, redirect to GitHub, for a
\* scopes parameter of scopeParams
AuthGithubOf(scopeParams) ==
  /\ Issued < MaxAuth
  /\ \E state \in StateTokens, scopesParam \in scopeParams :
       LET scopes == Or(scopesParam, repo_user) IN
       /\ sessions' = sessionsSet(sessions, state, now, scopes)
       /\ issued' = [issued EXCEPT ![state] = @ + 1]
       /\ requested' = [requested EXCEPT ![state] =
            IF sessionsHas(sessions, state) THEN @ \cup {scopesParam} ELSE {scopesParam}]
       /\ redirect' = <<[scopes |-> scopes, state |-> state,
                         location |-> githubAuthUrl(scopes, state)]>>
  /\ UNCHANGED <<now, nextSweep, accepted, pc, query, sessionData, tokenData, trace, sent>>
  /\ UNCHANGED <<mcpVars, stdioVars, clientVars>>

AuthGithub == AuthGithubOf(ScopeParams)

(* ---------------------------- /auth/callback --------------------------- *)
Event(op, arg) == [op |-> op, arg |-> arg]

\* the State Store mutation a handler step made, if it made one
Mutation(before, after, s) ==
  IF before = after THEN <<>> ELSE <<Event("delete", s)>>

FailureRedirect(code) == [NoResponse EXCEPT !.kind = "failure", !.error = code]

SuccessRedirect(token, login, scope) ==
  [kind |-> "success", error |-> undefined, access_token |-> token,
   user |-> login, scope |-> scope]

\* the state is checked for presence in the query only, not in the store
CallbackCheckStateUnchecked(q, sess) ==
  IF Truthy(q.error) THEN "error"
  ELSE IF ~Truthy(q.code) \/ ~Truthy(q.state) THEN "missing"
  ELSE "exchange"

\* the error parameter is looked at after the other checks
CallbackCheckErrorLast(q, sess) ==
  IF ~Truthy(q.code) \/ ~Truthy(q.state) THEN "missing"
  ELSE IF ~sessionsHas(sess, q.state) THEN "invalid"
  ELSE IF Truthy(q.error) THEN "error"
  ELSE "exchange"

\* only the code is checked for presence
CallbackCheckCodeOnly(q, sess) ==
  IF Truthy(q.error) THEN "error"
  ELSE IF ~Truthy(q.code) THEN "missing"
  ELSE IF ~sessionsHas(sess, q.state) THEN "invalid"
  ELSE "exchange"

\* the checks of the handler before its first await, in the code's order
CallbackCheck(q, sess) ==
  IF Truthy(q.error) THEN "error"
  ELSE IF ~Truthy(q.code) \/ ~Truthy(q.state) THEN "missing"
  ELSE IF ~sessionsHas(sess, q.state) THEN "invalid"
  ELSE "exchange"

\* the error code of the redirect that answers a rejected callback
RejectCode(q, outcome) ==
  CASE outcome = "error" -> encodeURIComponent(q.error)
    [] outcome = "missing" -> missing_code_or_state
    [] outcome = "invalid" -> invalid_state

\* error.message of the thrown Error
NoTokenMessage ==
  <<"N","o"," ","a","c","c","e","s","s"," ","t","o","k","e","n"," ",
    "r","e","c","e","i","v","e","d">>

\* a catch block that redirects with the message of the error it caught
CatchCodeMessage == encodeURIComponent(NoTokenMessage)

\* what the catch block redirects with
CatchCode == encodeURIComponent(oauth_exchange_failed)

Idle(r) == pc[r] = "idle"

\* the request leaves the server: its locals are gone, its answer is sent
Finish(r, resp) ==
  /\ sent' = [query |-> query[r], response |-> resp,
              trace |-> Append(trace[r], Event("redirect", resp.error))]
  /\ pc' = [pc EXCEPT ![r] = "idle"]
  /\ query' = [query EXCEPT ![r] = NoQuery]
  /\ sessionData' = [sessionData EXCEPT ![r] = NoSession]
  /\ tokenData' = [tokenData EXCEPT ![r] = NoData]
  /\ trace' = [trace EXCEPT ![r] = <<>>]

\* The handler from its start to the redirect that rejects the request, or
\* to its first await (the token-exchange POST), for a query of queries.
CallbackStartOf(r, queries) ==
  /\ Idle(r)
  /\ \A r2 \in Slots : r2 < r => ~Idle(r2)
  /\ \E q \in queries :
       LET outcome == CallbackCheck(q, sessions) IN
       IF outcome = "exchange"
       THEN /\ query' = [query EXCEPT ![r] = q]
            /\ sessionData' = [sessionData EXCEPT ![r] = sessionsGet(sessions, q.state)]
            /\ sessions' = sessionsDelete(sessions, q.state)
            /\ accepted' = [accepted EXCEPT ![q.state] = @ + 1]
            /\ trace' = [trace EXCEPT ![r] =
                 Mutation(sessions, sessions', q.state) \o <<Event("POST", q.code)>>]
            /\ pc' = [pc EXCEPT ![r] = "exchanging"]
            /\ UNCHANGED <<sent, tokenData>>
       ELSE /\ sent' = [query |-> q,
                        response |-> FailureRedirect(RejectCode(q, outcome)),
                        trace |-> <<Event("redirect", RejectCode(q, outcome))>>]
            /\ UNCHANGED <<sessions, accepted, pc, query, sessionData, tokenData, trace>>
  /\ UNCHANGED <<now, nextSweep, issued, requested, redirect>>
  /\ UNCHANGED <<mcpVars, stdioVars, clientVars>>

\* a callback with any query
CallbackStart(r) == CallbackStartOf(r, Queries)

\* a handler that redirects with the grant without fetching the identity
ExchangeReturnNoIdentity(r) ==
  /\ pc[r] = "exchanging"
  /\ \E resp \in ExchangeResponses :
       IF resp.ok /\ Truthy(resp.access_token)
       THEN Finish(r, SuccessRedirect(resp.access_token, undefined,
                                      Or(resp.scope, sessionData[r].scopes)))
       ELSE Finish(r, FailureRedirect(CatchCode))
  /\ UNCHANGED <<sessions, now, nextSweep, issued, requested, accepted, redirect>>
  /\ UNCHANGED <<mcpVars, stdioVars, clientVars>>

\* a handler that looks at the status of the exchange response only, not at
\* its access_token
ExchangeReturnTokenUnchecked(r) ==
  /\ pc[r] = "exchanging"
  /\ \E resp \in ExchangeResponses :
       IF resp.ok
       THEN /\ tokenData' = [tokenData EXCEPT ![r] = resp]
            /\ trace' = [trace EXCEPT ![r] = Append(@, Event("GET", resp.access_token))]
            /\ pc' = [pc EXCEPT ![r] = "identifying"]
            /\ UNCHANGED <<sent, query, sessionData>>
       ELSE Finish(r, FailureRedirect(CatchCode))
  /\ UNCHANGED <<sessions, now, nextSweep, issued, requested, accepted, redirect>>
  /\ UNCHANGED <<mcpVars, stdioVars, clientVars>>

\* a catch block that puts the state back into the Map
ExchangeReturnRestoring(r) ==
  /\ pc[r] = "exchanging"
  /\ \E resp \in ExchangeResponses :
       IF resp.ok /\ Truthy(resp.access_token)
       THEN /\ tokenData' = [tokenData EXCEPT ![r] = resp]
            /\ trace' = [trace EXCEPT ![r] = Append(@, Event("GET", resp.access_token))]
            /\ pc' = [pc EXCEPT ![r] = "identifying"]
            /\ UNCHANGED <<sent, query, sessionData, sessions>>
       ELSE /\ Finish(r, FailureRedirect(CatchCode))
            /\ sessions' = sessionsSet(sessions, sessionData[r].state,
                                       sessionData[r].timestamp, sessionData[r].scopes)
  /\ UNCHANGED <<now, nextSweep, issued, requested, accepted, redirect>>
  /\ UNCHANGED <<mcpVars, stdioVars, clientVars>>

\* The token-exchange POST settles: the handler runs to the identity GET, or
\* to the catch block.
ExchangeReturn(r) ==
  /\ pc[r] = "exchanging"
  /\ \E resp \in ExchangeResponses :
       IF resp.ok /\ Truthy(resp.access_token)
       THEN /\ tokenData' = [tokenData EXCEPT ![r] = resp]
            /\ trace' = [trace EXCEPT ![r] = Append(@, Event("GET", resp.access_token))]
            /\ pc' = [pc EXCEPT ![r] = "identifying"]
            /\ UNCHANGED <<sent, query, sessionData>>
       ELSE Finish(r, FailureRedirect(CatchCode))
  /\ UNCHANGED <<sessions, now, nextSweep, issued, requested, accepted, redirect>>
  /\ UNCHANGED <<mcpVars, stdioVars, clientVars>>

\* The identity GET settles: the handler redirects with the grant, or runs
\* the catch block.
IdentityReturn(r) ==
  /\ pc[r] = "identifying"
  /\ \E resp \in IdentityResponses :
       IF resp.ok
       THEN Finish(r, SuccessRedirect(tokenData[r].access_token, resp.login,
                                      Or(tokenData[r].scope, sessionData[r].scopes)))
       ELSE Finish(r, FailureRedirect(CatchCode))
  /\ UNCHANGED <<sessions, now, nextSweep, issued, requested, accepted, redirect>>
  /\ UNCHANGED <<mcpVars, stdioVars, clientVars>>

(* ------------------------------ the reaper ----------------------------- *)
\* the subtraction the wrong way round
ExpiredReversed(e, t) == e.timestamp - t > TenMinutes

\* a comparison that takes an entry of exactly ten minutes for expired
ExpiredInclusive(e, t) == t - e.timestamp >= TenMinutes

\* now - session.timestamp > 10 * 60 * 1000
Expired(e, t) == t - e.timestamp > TenMinutes

\* the setInterval callback: evict the entries older than ten minutes
Sweep ==
  /\ now = nextSweep
  /\ sessions' = {e \in sessions : ~Expired(e, now)}
  /\ nextSweep' = nextSweep + TenMinutes
  /\ UNCHANGED <<now, issued, requested, accepted, pc, query, sessionData, tokenData, trace, sent,
                 redirect>>
  /\ UNCHANGED <<mcpVars, stdioVars, clientVars>>

\* time passes; a timer that is due fires before the clock moves on
Tick ==
  /\ now < nextSweep
  /\ now + TickMs <= MaxTime
  /\ now' = IF now + TickMs < nextSweep THEN now + TickMs ELSE nextSweep
  /\ UNCHANGED <<sessions, nextSweep, issued, requested, accepted, pc, query, sessionData,
                 tokenData, trace, sent, redirect>>
  /\ UNCHANGED <<mcpVars, stdioVars, clientVars>>

\* The request handlers, interleaved at their awaits; the clock stands still.
Next ==
  \/ AuthGithub
  \/ \E r \in Slots : CallbackStart(r)
  \/ \E r \in Slots : ExchangeReturn(r)
  \/ \E r \in Slots : IdentityReturn(r)

Spec == Init /\ [][Next]_vars

\* The clock and the reaper, with one callback in flight at a time.
NextReaper ==
  \/ AuthGithub
  \/ CallbackStart(1)
  \/ ExchangeReturn(1)
  \/ IdentityReturn(1)
  \/ Sweep
  \/ Tick

SpecReaper == Init /\ [][NextReaper]_vars

\* Everything together.
NextFull ==
  \/ Next
  \/ Sweep
  \/ Tick

SpecFull == Init /\ [][NextFull]_vars

(* ----------------------- the HTTP MCP endpoint ------------------------- *)
\* the keys a tool's arguments object can hold
ArgNames ==
  {"owner", "repo", "title", "body", "labels", "path", "ref", "sha", "type", "sort",
   "state", "per_page", "code", "scopes"}

\* the keys whose value is a number; the other values are strings
NumberArgs == {"per_page"}

\* An optional JavaScript value is a sequence of length 0 (undefined) or 1.
\* The arguments object maps each key to its optional value.
NoArgs == [k \in ArgNames |-> <<>>]

\* args?.k
Member(args, k) == IF args = <<>> THEN <<>> ELSE args[1][k]

\* the truthiness of args?.k: a string that is not empty, a number that is not 0
TruthyMember(args, k) ==
  LET m == Member(args, k) IN
  /\ m # <<>>
  /\ IF k \in NumberArgs THEN m[1] # 0 ELSE m[1] # <<>>

DigitChar(d) == <<"0", "1", "2", "3", "4", "5", "6", "7", "8", "9">>[d + 1]

\* String(n) of a natural number
RECURSIVE NumberToString(_)
NumberToString(n) ==
  IF n < 10 THEN <<DigitChar(n)>>
  ELSE NumberToString(n \div 10) \o <<DigitChar(n % 10)>>

\* the string a template literal or URLSearchParams makes of args.k
MemberString(args, k) ==
  IF k \in NumberArgs THEN NumberToString(Member(args, k)[1]) ELSE Member(args, k)[1]

\* application/x-www-form-urlencoded escape of one character
FormEscapeChar(c) ==
  CASE c = " " -> <<"+">>
    [] c = "&" -> <<"%", "2", "6">>
    [] c = "=" -> <<"%", "3", "D">>
    [] c = "+" -> <<"%", "2", "B">>
    [] c = "%" -> <<"%", "2", "5">>
    [] c = "," -> <<"%", "2", "C">>
    [] c = "/" -> <<"%", "2", "F">>
    [] c = "?" -> <<"%", "3", "F">>
    [] c = ":" -> <<"%", "3", "A">>
    [] OTHER -> <<c>>

RECURSIVE FormEncode(_)
FormEncode(s) ==
  IF s = <<>> THEN <<>> ELSE FormEscapeChar(Head(s)) \o FormEncode(Tail(s))

\* URLSearchParams.toString() of a list of <<key, value>> pairs
RECURSIVE ParamsToString(_)
ParamsToString(params) ==
  IF params = <<>> THEN <<>>
  ELSE FormEncode(params[1][1]) \o <<"=">> \o FormEncode(params[1][2])
       \o (IF Len(params) > 1 THEN <<"&">> ELSE <<>>)
       \o ParamsToString(Tail(params))

\* the name of a key, as a string of the program
KeyString(k) ==
  CASE k = "owner" -> <<"o","w","n","e","r">>
    [] k = "repo" -> <<"r","e","p","o">>
    [] k = "title" -> <<"t","i","t","l","e">>
    [] k = "body" -> <<"b","o","d","y">>
    [] k = "labels" -> <<"l","a","b","e","l","s">>
    [] k = "path" -> <<"p","a","t","h">>
    [] k = "ref" -> <<"r","e","f">>
    [] k = "sha" -> <<"s","h","a">>
    [] k = "type" -> <<"t","y","p","e">>
    [] k = "sort" -> <<"s","o","r","t">>
    [] k = "state" -> <<"s","t","a","t","e">>
    [] k = "per_page" -> <<"p","e","r","_","p","a","g","e">>
    [] k = "code" -> <<"c","o","d","e">>
    [] k = "scopes" -> <<"s","c","o","p","e","s">>

\* a handler that looks at the first of its optional parameters only
AppendTruthyHead(args, keys) ==
  IF keys # <<>> /\ TruthyMember(args, Head(keys))
  THEN <<<<KeyString(Head(keys)), MemberString(args, Head(keys))>>>>
  ELSE <<>>

\* if (args?.k) params.append('k', args.k), for each key of keys in order
RECURSIVE AppendTruthy(_, _)
AppendTruthy(args, keys) ==
  IF keys = <<>> THEN <<>>
  ELSE (IF TruthyMember(args, Head(keys))
        THEN <<<<KeyString(Head(keys)), MemberString(args, Head(keys))>>>>
        ELSE <<>>)
       \o AppendTruthy(args, Tail(keys))

(* the tool catalogue of POST /mcp/tools/list; the descriptions are left out *)
NoSchema == [type |-> "string", enum |-> <<>>, minimum |-> <<>>, maximum |-> <<>>,
             default |-> <<>>]
StringSchema == NoSchema
EnumSchema(values, default) == [NoSchema EXCEPT !.enum = values, !.default = <<default>>]
PerPageSchema ==
  [NoSchema EXCEPT !.type = "number", !.minimum = <<1>>, !.maximum = <<100>>,
                   !.default = <<30>>]
ArraySchema == [NoSchema EXCEPT !.type = "array"]

Tool(name, properties, required) ==
  [name |-> name, properties |-> properties, required |-> required]

OwnerRepo == [k \in {"owner", "repo"} |-> StringSchema]

StateSchema == EnumSchema(<<<<"o","p","e","n">>, <<"c","l","o","s","e","d">>, <<"a","l","l">>>>, <<"o","p","e","n">>)

tools ==
  << Tool(get_user, <<>>, <<>>),
     Tool(list_repositories,
          [k \in {"type", "sort", "per_page"} |->
             CASE k = "type" -> EnumSchema(<<<<"a","l","l">>, <<"o","w","n","e","r">>, <<"m","e","m","b","e","r">>>>, <<"o","w","n","e","r">>)
               [] k = "sort" -> EnumSchema(<<<<"c","r","e","a","t","e","d">>, <<"u","p","d","a","t","e","d">>, <<"p","u","s","h","e","d">>,
                                             <<"f","u","l","l","_","n","a","m","e">>>>, <<"u","p","d","a","t","e","d">>)
               [] k = "per_page" -> PerPageSchema],
          <<>>),
     Tool(get_repository, OwnerRepo, <<"owner", "repo">>),
     Tool(list_issues,
          [k \in {"owner", "repo", "state", "per_page"} |->
             CASE k = "state" -> StateSchema
               [] k = "per_page" -> PerPageSchema
               [] OTHER -> StringSchema],
          <<"owner", "repo">>),
     Tool(create_issue,
          [k \in {"owner", "repo", "title", "body", "labels"} |->
             IF k = "labels" THEN ArraySchema ELSE StringSchema],
          <<"owner", "repo", "title">>),
     Tool(list_pull_requests,
          [k \in {"owner", "repo", "state", "per_page"} |->
             CASE k = "state" -> StateSchema
               [] k = "per_page" -> PerPageSchema
               [] OTHER -> StringSchema],
          <<"owner", "repo">>),
     Tool(get_file_contents,
          [k \in {"owner", "repo", "path", "ref"} |-> StringSchema],
          <<"owner", "repo", "path">>),
     Tool(list_commits,
          [k \in {"owner", "repo", "sha", "per_page"} |->
             IF k = "per_page" THEN PerPageSchema ELSE StringSchema],
          <<"owner", "repo">>) >>

(* what the clients of the MCP endpoint send *)
\* req.headers.authorization: absent, a scheme without a token, a bearer
\* token, another scheme, two spaces after the scheme, three fields
AuthorizationHeaders ==
  {undefined, <<>>, Bearer, Bearer \o <<" ">>, Bearer \o <<" ", "t">>,
   Bearer \o <<" ", "u">>, <<"B","a","s","i","c"," ","t">>,
   Bearer \o <<" ", " ", "t">>, Bearer \o <<" ", "t", " ", "u">>}

unknown_tool == <<"d","e","l","e","t","e","_","r","e","p","o","s","i","t","o","r","y">>

\* req.body.name
ToolNames == {undefined, unknown_tool} \cup {tools[i].name : i \in DOMAIN tools}

With(args, k, v) == [args EXCEPT ![k] = <<v>>]

OwnerRepoArgs == With(With(NoArgs, "owner", <<"o">>), "repo", <<"r">>)
AllRequiredArgs == With(With(OwnerRepoArgs, "title", <<"i">>), "path", <<"p">>)

\* req.body.arguments: absent, or an object
ToolArguments ==
  {<<>>} \cup
  {<<args>> : args \in
     { NoArgs,
       With(NoArgs, "owner", <<"o">>),
       With(NoArgs, "repo", <<"r">>),
       With(With(NoArgs, "owner", <<>>), "repo", <<"r">>),
       OwnerRepoArgs,
       With(OwnerRepoArgs, "title", <<"i">>),
       With(OwnerRepoArgs, "path", <<"p">>),
       With(With(With(AllRequiredArgs, "type", <<"o","w","n","e","r">>), "state", <<"o","p","e","n">>), "per_page", 100),
       With(With(AllRequiredArgs, "type", <<"o","w","n","e","r">>), "per_page", 200),
       With(With(With(AllRequiredArgs, "type", <<"a","n","y">>), "state", <<"a","n","y">>), "per_page", 0),
       With(With(NoArgs, "type", <<>>), "sort", <<"a","&","b"," ","=">>) }}

ToolBodies == [name : ToolNames, arguments : ToolArguments]

(* what api.github.com answers *)
JNull == [t |-> "null", v |-> <<>>]
JString(s) == [t |-> "string", v |-> s]
JArray(items) == [t |-> "array", v |-> items]
\* members: a sequence of <<key, value>> pairs
JObject(members) == [t |-> "object", v |-> members]

ResponseBodies == {JObject(<< <<<<"l","o","g","i","n">>, JString(<<"o">>)>> >>), JArray(<<>>)}

FailureStatuses == {401, 404, 500}

\* the promise of axios(config): fulfilled with a 2xx response, rejected with
\* the response of another status, or rejected without a response
UpstreamOutcomes ==
  [ok : {TRUE}, status : {200}, data : ResponseBodies, message : {<<>>}] \cup
  {[ok |-> FALSE, status |-> s, data |-> JObject(<<>>),
    message |-> RequestFailedPrefix \o NumberToString(s)] : s \in FailureStatuses} \cup
  {[ok |-> FALSE, status |-> 0, data |-> JObject(<<>>), message |-> NetworkError]}

(* JSON.stringify(value, null, 2) *)
JSONEscapeChar(c) ==
  CASE c = "\"" -> <<"\\", "\"">>
    [] c = "\\" -> <<"\\", "\\">>
    [] c = "\n" -> <<"\\", "n">>
    [] OTHER -> <<c>>

\* the characters of s, each escaped (the halves of s one after the other)
RECURSIVE JSONQuote(_)
JSONQuote(s) ==
  IF s = <<>> THEN <<>>
  ELSE IF Len(s) = 1 THEN JSONEscapeChar(s[1])
  ELSE LET half == Len(s) \div 2 IN
       JSONQuote(SubSeq(s, 1, half)) \o JSONQuote(SubSeq(s, half + 1, Len(s)))

Indent(n) == [i \in 1..n |-> " "]

RECURSIVE JSONStringify(_, _)
RECURSIVE JSONItems(_, _, _)
\* the items or members of a non-empty array or object, one per line
JSONItems(t, items, ind) ==
  Indent(ind)
  \o (IF t = "object"
      THEN <<"\"">> \o JSONQuote(items[1][1]) \o <<"\"", ":", " ">>
           \o JSONStringify(items[1][2], ind)
      ELSE JSONStringify(items[1], ind))
  \o (IF Len(items) > 1 THEN <<",", "\n">> \o JSONItems(t, Tail(items), ind) ELSE <<>>)

JSONStringify(value, ind) ==
  IF value.t = "string" THEN <<"\"">> \o JSONQuote(value.v) \o <<"\"">>
  ELSE IF value.t = "null" THEN <<"n", "u", "l", "l">>
  ELSE LET open == IF value.t = "object" THEN "{" ELSE "["
           close == IF value.t = "object" THEN "}" ELSE "]"
       IN IF value.v = <<>> THEN <<open, close>>
          ELSE <<open, "\n">> \o JSONItems(value.t, value.v, ind + 2)
               \o <<"\n">> \o Indent(ind) \o <<close>>

(* authenticateMCP *)
\* the part of s after its first space; undefined when s has no space
RECURSIVE AfterSpace(_)
AfterSpace(s) ==
  IF s = <<>> THEN undefined
  ELSE IF Head(s) = " " THEN Tail(s) ELSE AfterSpace(Tail(s))

\* the part of s before its first space
RECURSIVE UpToSpace(_)
UpToSpace(s) ==
  IF s = <<>> \/ Head(s) = " " THEN <<>> ELSE <<Head(s)>> \o UpToSpace(Tail(s))

\* s.split(' ')[1]
SecondField(s) ==
  IF AfterSpace(s) = undefined THEN undefined ELSE UpToSpace(AfterSpace(s))

\* a middleware that accepts every request that has an Authorization header
BearerTokenOrHeader(authHeader) ==
  IF ~Truthy(authHeader) THEN authHeader
  ELSE IF Truthy(SecondField(authHeader)) THEN SecondField(authHeader) ELSE authHeader

\* a middleware that takes the token of the Bearer scheme only
BearerTokenOfScheme(authHeader) ==
  IF ~Truthy(authHeader) THEN authHeader
  ELSE IF UpToSpace(authHeader) = Bearer THEN SecondField(authHeader) ELSE undefined

\* authHeader && authHeader.split(' ')[1]
BearerToken(authHeader) ==
  IF ~Truthy(authHeader) THEN authHeader ELSE SecondField(authHeader)

(* callGitHubAPI *)
\* the config callGitHubAPI hands to axios
callGitHubAPI(token, endpoint, method, data) ==
  [method |-> method,
   url |-> ApiBase \o endpoint,
   headers |-> [Authorization |-> Bearer \o <<" ">> \o token,
                Accept |-> AcceptGithubJson,
                UserAgent |-> UserAgentWeb],
   data |-> IF data # <<>> /\ method \in {"POST", "PUT", "PATCH"} THEN data ELSE <<>>]

(* POST /mcp/tools/call: the switch over the tool name *)
Reject(message) ==
  [kind |-> "reject", error |-> message, endpoint |-> <<>>, method |-> "GET",
   data |-> <<>>]

Call(endpoint, method, data) ==
  [kind |-> "call", error |-> <<>>, endpoint |-> endpoint, method |-> method,
   data |-> data]

\* repos/${args.owner}/${args.repo}
RepoPath(args) ==
  <<"r","e","p","o","s","/">> \o MemberString(args, "owner") \o <<"/">> \o MemberString(args, "repo")

\* args.k || fallback, for the body of create_issue
MemberOr(args, k, fallback) ==
  IF TruthyMember(args, k) THEN Member(args, k)[1] ELSE fallback

\* a switch whose default case is the first tool
DispatchDefaultToUser(name, args) ==
  CASE name = get_user -> Call(<<"u","s","e","r">>, "GET", <<>>)
    [] name = list_repositories ->
         Call(<<"u","s","e","r","/","r","e","p","o","s","?">>
                \o ParamsToString(AppendTruthy(args, <<"type", "sort", "per_page">>)),
              "GET", <<>>)
    [] name = get_repository ->
         IF ~TruthyMember(args, "owner") \/ ~TruthyMember(args, "repo")
         THEN Reject(OwnerAndRepoAreRequired)
         ELSE Call(RepoPath(args), "GET", <<>>)
    [] name = list_issues ->
         IF ~TruthyMember(args, "owner") \/ ~TruthyMember(args, "repo")
         THEN Reject(OwnerAndRepoAreRequired)
         ELSE Call(RepoPath(args) \o <<"/","i","s","s","u","e","s","?">>
                     \o ParamsToString(AppendTruthy(args, <<"state", "per_page">>)),
                   "GET", <<>>)
    [] name = create_issue ->
         IF ~TruthyMember(args, "owner") \/ ~TruthyMember(args, "repo")
              \/ ~TruthyMember(args, "title")
         THEN Reject(OwnerRepoAndTitleAreRequired)
         ELSE Call(RepoPath(args) \o <<"/","i","s","s","u","e","s">>, "POST",
                   <<[title |-> Member(args, "title")[1],
                      body |-> MemberOr(args, "body", <<>>),
                      labels |-> MemberOr(args, "labels", <<>>)]>>)
    [] name = list_pull_requests ->
         IF ~TruthyMember(args, "owner") \/ ~TruthyMember(args, "repo")
         THEN Reject(OwnerAndRepoAreRequired)
         ELSE Call(RepoPath(args) \o <<"/","p","u","l","l","s","?">>
                     \o ParamsToString(AppendTruthy(args, <<"state", "per_page">>)),
                   "GET", <<>>)
    [] name = get_file_contents ->
         IF ~TruthyMember(args, "owner") \/ ~TruthyMember(args, "repo")
              \/ ~TruthyMember(args, "path")
         THEN Reject(OwnerRepoAndPathAreRequired)
         ELSE Call(RepoPath(args) \o <<"/","c","o","n","t","e","n","t","s","/">> \o MemberString(args, "path")
                     \o <<"?">> \o ParamsToString(AppendTruthy(args, <<"ref">>)),
                   "GET", <<>>)
    [] name = list_commits ->
         IF ~TruthyMember(args, "owner") \/ ~TruthyMember(args, "repo")
         THEN Reject(OwnerAndRepoAreRequired)
         ELSE Call(RepoPath(args) \o <<"/","c","o","m","m","i","t","s","?">>
                     \o ParamsToString(AppendTruthy(args, <<"sha", "per_page">>)),
                   "GET", <<>>)
    [] OTHER -> Call(<<"u","s","e","r">>, "GET", <<>>)

\* the switch of the handler: the upstream call to make, or the error to
\* answer with
Dispatch(name, args) ==
  CASE name = get_user -> Call(<<"u","s","e","r">>, "GET", <<>>)
    [] name = list_repositories ->
         Call(<<"u","s","e","r","/","r","e","p","o","s","?">>
                \o ParamsToString(AppendTruthy(args, <<"type", "sort", "per_page">>)),
              "GET", <<>>)
    [] name = get_repository ->
         IF ~TruthyMember(args, "owner") \/ ~TruthyMember(args, "repo")
         THEN Reject(OwnerAndRepoAreRequired)
         ELSE Call(RepoPath(args), "GET", <<>>)
    [] name = list_issues ->
         IF ~TruthyMember(args, "owner") \/ ~TruthyMember(args, "repo")
         THEN Reject(OwnerAndRepoAreRequired)
         ELSE Call(RepoPath(args) \o <<"/","i","s","s","u","e","s","?">>
                     \o ParamsToString(AppendTruthy(args, <<"state", "per_page">>)),
                   "GET", <<>>)
    [] name = create_issue ->
         IF ~TruthyMember(args, "owner") \/ ~TruthyMember(args, "repo")
              \/ ~TruthyMember(args, "title")
         THEN Reject(OwnerRepoAndTitleAreRequired)
         ELSE Call(RepoPath(args) \o <<"/","i","s","s","u","e","s">>, "POST",
                   <<[title |-> Member(args, "title")[1],
                      body |-> MemberOr(args, "body", <<>>),
                      labels |-> MemberOr(args, "labels", <<>>)]>>)
    [] name = list_pull_requests ->
         IF ~TruthyMember(args, "owner") \/ ~TruthyMember(args, "repo")
         THEN Reject(OwnerAndRepoAreRequired)
         ELSE Call(RepoPath(args) \o <<"/","p","u","l","l","s","?">>
                     \o ParamsToString(AppendTruthy(args, <<"state", "per_page">>)),
                   "GET", <<>>)
    [] name = get_file_contents ->
         IF ~TruthyMember(args, "owner") \/ ~TruthyMember(args, "repo")
              \/ ~TruthyMember(args, "path")
         THEN Reject(OwnerRepoAndPathAreRequired)
         ELSE Call(RepoPath(args) \o <<"/","c","o","n","t","e","n","t","s","/">> \o MemberString(args, "path")
                     \o <<"?">> \o ParamsToString(AppendTruthy(args, <<"ref">>)),
                   "GET", <<>>)
    [] name = list_commits ->
         IF ~TruthyMember(args, "owner") \/ ~TruthyMember(args, "repo")
         THEN Reject(OwnerAndRepoAreRequired)
         ELSE Call(RepoPath(args) \o <<"/","c","o","m","m","i","t","s","?">>
                     \o ParamsToString(AppendTruthy(args, <<"sha", "per_page">>)),
                   "GET", <<>>)
    [] OTHER -> Reject(UnknownToolPrefix \o name)

(* the handlers *)
Json(status, body) == [status |-> status, body |-> body]

\* the handler of one request of the MCP endpoint, from authenticateMCP on
Answered(route, header, token, name, args, response) ==
  [pc |-> "answered", route |-> route, authorization |-> header, token |-> token,
   name |-> name, args |-> args, requests |-> <<>>, outcome |-> <<>>,
   response |-> response, log |-> <<>>]

McpIdle == mcp.pc # "awaiting"

\* a handler whose tool list depends on the token and on the State Store
ToolsListOfDepending(headers) ==
  /\ McpIdle
  /\ \E header \in headers :
       LET token == BearerToken(header) IN
       mcp' = IF ~Truthy(token)
              THEN Answered("list", header, undefined, undefined, <<>>,
                            Json(401, [error |-> AccessTokenRequired]))
              ELSE Answered("list", header, token, undefined, <<>>,
                            Json(200, [tools |-> IF token = <<"u">> /\ sessions # {}
                                                 THEN Tail(tools) ELSE tools]))
  /\ UNCHANGED <<oauthVars, stdioVars, clientVars>>

\* POST /mcp/tools/list, with a header of headers
ToolsListOf(headers) ==
  /\ McpIdle
  /\ \E header \in headers :
       LET token == BearerToken(header) IN
       mcp' = IF ~Truthy(token)
              THEN Answered("list", header, undefined, undefined, <<>>,
                            Json(401, [error |-> AccessTokenRequired]))
              ELSE Answered("list", header, token, undefined, <<>>,
                            Json(200, [tools |-> tools]))
  /\ UNCHANGED <<oauthVars, stdioVars, clientVars>>

ToolsList == ToolsListOf(AuthorizationHeaders)

\* a handler that looks at the tool name before the token
ToolsCallOfNameFirst(headers, bodies) ==
  /\ McpIdle
  /\ \E header \in headers, body \in bodies :
       LET token == BearerToken(header)
           name == body.name
           args == body.arguments
       IN
       mcp' =
         IF ~Truthy(name)
         THEN Answered("call", header, IF Truthy(token) THEN token ELSE undefined,
                       name, args, Json(400, [error |-> ToolNameIsRequired]))
         ELSE IF ~Truthy(token)
         THEN Answered("call", header, undefined, name, args,
                       Json(401, [error |-> AccessTokenRequired]))
         ELSE LET d == Dispatch(name, args) IN
              IF d.kind = "reject"
              THEN Answered("call", header, token, name, args,
                            Json(400, [error |-> d.error]))
              ELSE [pc |-> "awaiting", route |-> "call", authorization |-> header,
                    token |-> token, name |-> name, args |-> args,
                    requests |-> <<callGitHubAPI(token, d.endpoint, d.method, d.data)>>,
                    outcome |-> <<>>, response |-> NoHttpResponse, log |-> <<>>]
  /\ UNCHANGED <<oauthVars, stdioVars, clientVars>>

\* POST /mcp/tools/call, to the answer that rejects the request or to the
\* await of the upstream call
ToolsCallOf(headers, bodies) ==
  /\ McpIdle
  /\ \E header \in headers, body \in bodies :
       LET token == BearerToken(header)
           name == body.name
           args == body.arguments
       IN
       mcp' =
         IF ~Truthy(token)
         THEN Answered("call", header, undefined, name, args,
                       Json(401, [error |-> AccessTokenRequired]))
         ELSE IF ~Truthy(name)
         THEN Answered("call", header, token, name, args,
                       Json(400, [error |-> ToolNameIsRequired]))
         ELSE LET d == Dispatch(name, args) IN
              IF d.kind = "reject"
              THEN Answered("call", header, token, name, args,
                            Json(400, [error |-> d.error]))
              ELSE [pc |-> "awaiting", route |-> "call", authorization |-> header,
                    token |-> token, name |-> name, args |-> args,
                    requests |-> <<callGitHubAPI(token, d.endpoint, d.method, d.data)>>,
                    outcome |-> <<>>, response |-> NoHttpResponse, log |-> <<>>]
  /\ UNCHANGED <<oauthVars, stdioVars, clientVars>>

ToolsCall == ToolsCallOf(AuthorizationHeaders, ToolBodies)

\* console.error('Tool execution error:', error): the line holds the error
\* as util.inspect prints it, the message and the own properties of the
\* AxiosError, config with the headers of the request among them
ConsoleError(out, request) ==
  [label |-> ToolExecutionError, error |-> [message |-> out.message, config |-> request]]

\* the catch block of the handler
ExecutionFailed(out) ==
  Json(500, [error |-> ToolExecutionFailed, details |-> out.message])

\* a handler that answers with String(result)
ExecutionSucceededString(out) ==
  Json(200, [content |-> <<[type |-> text, text |-> <<"[","o","b","j","e","c","t"," ","O","b","j","e","c","t","]">>]>>])

\* res.json({ content: [{ type: 'text', text: JSON.stringify(result, null, 2) }] })
ExecutionSucceeded(out) ==
  Json(200, [content |-> <<[type |-> text, text |-> JSONStringify(out.data, 0)]>>])

\* a handler that makes the upstream call once more when it failed
UpstreamReturnRetry ==
  /\ mcp.pc = "awaiting"
  /\ \E out \in UpstreamOutcomes :
       mcp' = IF ~out.ok /\ Len(mcp.requests) < 2
              THEN [mcp EXCEPT !.requests = Append(@, @[1])]
              ELSE [mcp EXCEPT !.pc = "answered",
                               !.outcome = <<out>>,
                               !.log = IF out.ok THEN @
                                       ELSE Append(@, ConsoleError(out, mcp.requests[1])),
                               !.response = IF out.ok THEN ExecutionSucceeded(out)
                                            ELSE ExecutionFailed(out)]
  /\ UNCHANGED <<oauthVars, stdioVars, clientVars>>

\* a catch block that logs the error and sends nothing
UpstreamReturnUnanswered ==
  /\ mcp.pc = "awaiting"
  /\ \E out \in UpstreamOutcomes :
       mcp' = IF out.ok
              THEN [mcp EXCEPT !.pc = "answered", !.outcome = <<out>>,
                               !.response = ExecutionSucceeded(out)]
              ELSE [mcp EXCEPT !.pc = "failed", !.outcome = <<out>>,
                               !.log = Append(@, ConsoleError(out, mcp.requests[1]))]
  /\ UNCHANGED <<oauthVars, stdioVars, clientVars>>

\* the upstream call settles: the handler answers
UpstreamReturn ==
  /\ mcp.pc = "awaiting"
  /\ \E out \in UpstreamOutcomes :
       mcp' = [mcp EXCEPT !.pc = "answered",
                          !.outcome = <<out>>,
                          !.log = IF out.ok THEN @
                                  ELSE Append(@, ConsoleError(out, mcp.requests[1])),
                          !.response = IF out.ok THEN ExecutionSucceeded(out)
                                       ELSE ExecutionFailed(out)]
  /\ UNCHANGED <<oauthVars, stdioVars, clientVars>>

\* The MCP endpoint, one request at a time: the handlers share no variable.
NextTools ==
  \/ ToolsList
  \/ ToolsCall
  \/ UpstreamReturn

SpecTools == Init /\ [][NextTools]_vars

(* ------------------------ the whole web server ------------------------ *)
\* req.query of the callbacks: with and without code, state and error
WebQueries ==
  {q \in Queries : q.state \in {undefined, <<"a">>} /\ q.error \in {undefined, access_denied}}

\* the headers of the MCP requests: no token, and two tokens
WebHeaders == {Bearer, Bearer \o <<" ", "t">>, Bearer \o <<" ", "u">>}

\* the bodies of the tool calls: a tool without arguments, a tool whose
\* required arguments are missing, a tool with an argument
WebBodies ==
  {[name |-> get_user, arguments |-> <<>>],
   [name |-> get_repository, arguments |-> <<NoArgs>>],
   [name |-> list_repositories,
    arguments |-> <<With(NoArgs, "type", <<"o","w","n","e","r">>)>>]}

\* The OAuth handlers, one callback at a time, and the MCP endpoint,
\* interleaved at the awaits of the handlers; the clock stands still.
NextWeb ==
  \/ AuthGithub
  \/ CallbackStartOf(1, WebQueries)
  \/ ExchangeReturn(1)
  \/ IdentityReturn(1)
  \/ ToolsListOf(WebHeaders)
  \/ ToolsCallOf(WebHeaders, WebBodies)
  \/ UpstreamReturn

SpecWeb == Init /\ [][NextWeb]_vars

\* Every outbound HTTP call settles: its promise is fulfilled or rejected,
\* and the handler that awaits it runs on.
SpecWebLive ==
  /\ SpecWeb
  /\ WF_vars(ExchangeReturn(1))
  /\ WF_vars(IdentityReturn(1))
  /\ WF_vars(UpstreamReturn)

\* a callback that passes the parameter checks, and one that does not
CatalogueQueries ==
  {[code |-> <<"c">>, state |-> <<"a">>, error |-> undefined],
   [code |-> undefined, state |-> <<"a">>, error |-> undefined]}

\* The tool list asked for between the other requests of the web server and
\* the sweeps of the reaper.
NextCatalogue ==
  \/ AuthGithub
  \/ CallbackStartOf(1, CatalogueQueries)
  \/ ExchangeReturn(1)
  \/ IdentityReturn(1)
  \/ Sweep
  \/ Tick
  \/ ToolsListOf(WebHeaders)
  \/ ToolsCallOf({Bearer \o <<" ", "t">>}, {[name |-> get_user, arguments |-> <<>>]})
  \/ UpstreamReturn

SpecCatalogue == Init /\ [][NextCatalogue]_vars

(* ------------------------- the stdio MCP server ------------------------ *)
\* String(v) of a string or undefined, as a template literal makes it
String(v) == IF v = undefined THEN <<"u","n","d","e","f","i","n","e","d">> ELSE v

\* `${args.k}` of the destructured member: the string, or 'undefined'
MemberTemplate(args, k) ==
  IF Member(args, k) = <<>> THEN <<"u","n","d","e","f","i","n","e","d">> ELSE MemberString(args, k)

\* the tools of the model with the parameters their schemas require
stdioTools ==
  << Tool(github_exchange_code, [k \in {"code", "state"} |-> StringSchema], <<"code">>),
     Tool(github_get_repo, OwnerRepo, <<"owner", "repo">>) >>

\* request.params.name
StdioNames == {github_exchange_code, github_get_repo, unknown_tool}

\* request.params.arguments
StdioArguments ==
  {<<>>, <<NoArgs>>, <<With(NoArgs, "repo", <<"r">>)>>,
   <<With(OwnerRepoArgs, "code", <<"c">>)>>}

\* the config of axios.post(`${GITHUB_OAUTH_BASE}/access_token`, ...)
accessTokenPost(code, state) ==
  [method |-> "POST",
   url |-> AccessTokenUrl,
   headers |-> [Authorization |-> undefined,
                Accept |-> ApplicationJson,
                ApiVersion |-> undefined,
                UserAgent |-> undefined],
   data |-> <<[code |-> code, state |-> state]>>]

Returned(body) == [thrown |-> FALSE, body |-> body]
Thrown(name, message) == [thrown |-> TRUE, body |-> [name |-> name, message |-> message]]

TextContent(chars) == <<[type |-> text, text |-> chars]>>

StdioFree(r) == stdio[r].pc \in {"idle", "answered"}

Answer(r, name, args, result) ==
  [stdio EXCEPT ![r] = [pc |-> "answered", name |-> name, args |-> args,
                        requests |-> <<>>, tokenData |-> <<>>, result |-> result]]

Await(r, pc1, name, args, request) ==
  [stdio EXCEPT ![r] = [pc |-> pc1, name |-> name, args |-> args,
                        requests |-> <<request>>, tokenData |-> <<>>,
                        result |-> NoResult]]

\* items.join(sep)
RECURSIVE Join(_, _)
Join(items, sep) ==
  IF items = <<>> THEN <<>>
  ELSE IF Len(items) = 1 THEN items[1]
  ELSE items[1] \o sep \o Join(Tail(items), sep)

\* `${GITHUB_OAUTH_BASE}/authorize?${params.toString()}`
authUrl(scopes, st) ==
  AuthorizeUrlStdio
  \o ParamsToString(<< <<ClientIdKey, CLIENT_ID>>,
                       <<RedirectUriKey, RedirectUriStdio>>,
                       <<ScopeKey, Join(scopes, <<" ">>)>>,
                       <<StateKey, st>> >>)

\* handleGetOAuthURL; random is Math.random().toString(36).substring(7)
handleGetOAuthURL(args, random) ==
  LET scopes == IF Member(args, "scopes") = <<>>
                THEN << <<"r","e","p","o">>, <<"u","s","e","r">> >>
                ELSE Member(args, "scopes")[1]
      st == IF TruthyMember(args, "state") THEN Member(args, "state")[1] ELSE random
  IN
  Returned([content |-> TextContent(JSONStringify(
     JObject(<< <<AuthorizationUrlKey, JString(authUrl(scopes, st))>>,
                <<StateKey, JString(st)>>,
                <<InstructionsKey, JString(Instructions)>> >>), 0))])

\* The CallToolRequestSchema handler, to the result it returns, to the error
\* it throws or to the first await of the tool's handler, for a name of
\* names and arguments of arguments.  Destructuring undefined arguments
\* throws a TypeError, which the catch block throws on.
CallToolOf(r, names, arguments) ==
  /\ StdioFree(r)
  /\ \A r2 \in StdioSlots : r2 < r => ~StdioFree(r2)
  /\ \E name \in names, args \in arguments, random \in StateTokens :
       stdio' =
         IF name = github_get_oauth_url
         THEN Answer(r, name, args, handleGetOAuthURL(args, random))
         ELSE IF name \notin {github_exchange_code, github_get_repo}
         THEN Answer(r, name, args, Thrown("McpError", UnknownToolStdio \o name))
         ELSE IF args = <<>>
         THEN Answer(r, name, args, Thrown("TypeError", <<>>))
         ELSE IF name = github_exchange_code
         THEN Await(r, "exchanging", name, args,
                    accessTokenPost(Member(args, "code"), Member(args, "state")))
         ELSE Await(r, "awaiting", name, args,
                    githubAPI(authorization, "GET",
                              <<"/","r","e","p","o","s","/">> \o MemberTemplate(args, "owner") \o <<"/">>
                                \o MemberTemplate(args, "repo"), <<>>))
  /\ UNCHANGED <<authorization, currentUser>>
  /\ UNCHANGED <<oauthVars, mcpVars, clientVars>>

CallTool(r) == CallToolOf(r, StdioNames, StdioArguments)

\* handleExchangeCode: the POST settles.  On a 2xx answer the token of the
\* answer, whatever it is, becomes the default Authorization header and
\* initializeUser() makes its request; else the catch block throws.
ExchangePostReturn(r) ==
  /\ stdio[r].pc = "exchanging"
  /\ \E resp \in ExchangeResponses :
       IF resp.ok
       THEN /\ authorization' = Bearer \o <<" ">> \o String(resp.access_token)
            /\ stdio' = [stdio EXCEPT
                 ![r].pc = "initializing",
                 ![r].tokenData = <<resp>>,
                 ![r].requests = Append(@, githubAPI(authorization', "GET",
                   <<"/","u","s","e","r">>, <<>>))]
       ELSE /\ stdio' = [stdio EXCEPT
                 ![r].pc = "answered",
                 ![r].result = Thrown("McpError", ExchangeFailed)]
            /\ UNCHANGED authorization
  /\ UNCHANGED currentUser
  /\ UNCHANGED <<oauthVars, mcpVars, clientVars>>

\* the members of the result of handleExchangeCode that are not undefined
ExchangeResult(resp, user) ==
  JObject((IF resp.access_token = undefined THEN <<>>
           ELSE << <<
             <<"a","c","c","e","s","s","_","t","o","k","e",
               "n">>, JString(resp.access_token)>> >>)
          \o (IF resp.scope = undefined THEN <<>>
              ELSE << <<<<"s","c","o","p","e">>, JString(resp.scope)>> >>)
          \o << <<<<"u","s","e","r">>, IF user = <<>> THEN JNull ELSE user[1]>>,
                <<<<"m","e","s","s","a","g","e">>, JString(AuthenticationSuccessful)>> >>)

\* the login of the account a token of the Authorization header belongs
\* to: the account of the environment's token, the account that granted the
\* token of the exchange; none for any other header value
AccountOf(auth) ==
  IF auth = Bearer \o <<" ">> \o ACCESS_TOKEN THEN <<<<"e">>>>
  ELSE IF \E tok \in AccessTokens : auth = Bearer \o <<" ">> \o tok THEN <<<<"o">>>>
  ELSE <<>>

\* response.data of GET /user
Identity(login) == JObject(<< <<<<"l","o","g","i","n">>, JString(login)>> >>)

\* what GET /user answers to a request: the identity of the account of its
\* token, or a failure; only a failure when the token is of no account
UserOutcomes(request) ==
  {[out EXCEPT !.data = Identity(AccountOf(request.headers.Authorization)[1])] :
     out \in {o \in UpstreamOutcomes :
                o.ok /\ AccountOf(request.headers.Authorization) # <<>>}}
  \cup {o \in UpstreamOutcomes : ~o.ok}

\* initializeUser: GET /user settles; a failure is logged and swallowed.
\* Started by the constructor it ends here, started by handleExchangeCode
\* that handler returns its result.
InitializeUserReturn(r) ==
  /\ stdio[r].pc = "initializing"
  /\ \E out \in UserOutcomes(stdio[r].requests[Len(stdio[r].requests)]) :
       /\ currentUser' = IF out.ok THEN <<out.data>> ELSE currentUser
       /\ stdio' = [stdio EXCEPT ![r] =
            IF stdio[r].name = github_exchange_code
            THEN [@ EXCEPT
                    !.pc = "answered",
                    !.result = Returned([content |-> TextContent(
                       JSONStringify(ExchangeResult(stdio[r].tokenData[1], currentUser'), 0))])]
            ELSE NoInvocation]
  /\ UNCHANGED authorization
  /\ UNCHANGED <<oauthVars, mcpVars, clientVars>>

\* handleGetRepo: the GET settles; the catch block of the request handler
\* turns an axios error into a result
ToolReturn(r) ==
  /\ stdio[r].pc = "awaiting"
  /\ \E out \in UpstreamOutcomes :
       stdio' = [stdio EXCEPT
         ![r].pc = "answered",
         ![r].result =
           IF out.ok
           THEN Returned([content |-> TextContent(JSONStringify(out.data, 0))])
           ELSE Returned([content |-> TextContent(GitHubApiErrorPrefix \o out.message),
                          isError |-> TRUE])]
  /\ UNCHANGED <<authorization, currentUser>>
  /\ UNCHANGED <<oauthVars, mcpVars, clientVars>>

\* The stdio server: its tool invocations, interleaved at their awaits.
NextStdio ==
  \/ \E r \in StdioSlots : CallTool(r)
  \/ \E r \in StdioSlots : ExchangePostReturn(r)
  \/ \E r \in StdioSlots : InitializeUserReturn(r)
  \/ \E r \in StdioSlots : ToolReturn(r)

SpecStdio == Init /\ [][NextStdio]_vars

(* ----------------------- the authorization URLs ------------------------ *)
\* req.query.scopes: absent, one scope, a list, a scope with a reserved
\* character
UrlScopeParams ==
  {undefined, <<"u","s","e","r">>, <<"r","e","p","o",",","r","e","a","d",":","u","s","e","r">>,
   <<"a","&","b">>}

\* the arguments of github_get_oauth_url: absent, scopes, scopes and state,
\* an empty state
UrlArguments ==
  {<<>>,
   <<With(NoArgs, "scopes", << <<"r","e","p","o">>, <<"r","e","a","d",":","u","s","e","r">> >>)>>,
   <<With(With(NoArgs, "scopes", << <<"a","&","b">> >>), "state", <<"s","=","1">>)>>,
   <<With(NoArgs, "state", <<>>)>>}

\* The two handlers that build an authorization URL.
NextUrl ==
  \/ AuthGithubOf(UrlScopeParams)
  \/ \E r \in StdioSlots : CallToolOf(r, {github_get_oauth_url}, UrlArguments)

SpecUrl == Init /\ [][NextUrl]_vars

(* ------------------------------ the claims ----------------------------- *)
stateA == <<"a">>

InFlight(r) == ~Idle(r)

\* in this step slot r takes up a callback that passed state validation
Accepts(r) == Idle(r) /\ InFlight(r)'

\* in this step a callback is answered by the checks before the first await
RejectsNow == sent' # sent /\ Len(sent'.trace) = 1

\* the query passes the parameter checks and presents state s
Presents(q, s) ==
  Truthy(q.code) /\ Truthy(q.state) /\ q.state = s /\ ~Truthy(q.error)

HasOp(tr, op) == \E i \in DOMAIN tr : tr[i].op = op

\* C1: a state is accepted at most once: the step that accepts a callback
\* with state s removes s from the store, only /auth/github puts a state
\* into the store, and a callback presenting a state that is not in the
\* store is answered invalid_state.
C1_AcceptedAtMostOnce ==
  [][\A s \in StateTokens :
       /\ accepted'[s] # accepted[s] =>
            s \in Pending /\ s \notin Pending' /\ accepted'[s] = accepted[s] + 1
       /\ (s \notin Pending /\ s \in Pending') => issued'[s] = issued[s] + 1
       /\ (s \notin Pending /\ RejectsNow /\ Presents(sent'.query, s)) =>
            sent'.response = FailureRedirect(invalid_state)]_vars

\* a second callback with an accepted state was answered invalid_state
C1_Witness ==
  /\ issued[stateA] = 1
  /\ accepted[stateA] = 1
  /\ \A r \in Slots : Idle(r)
  /\ Presents(sent.query, stateA)
  /\ sent.response = FailureRedirect(invalid_state)

\* C2: while a callback that passed validation with state s is in flight
\* and s has not been stored again, no other callback presenting s passes
\* validation: it is answered invalid_state; the accepting step itself has
\* removed s from the store before the handler's first await.
C2_ConcurrentCallbacks ==
  [][\A r \in Slots :
       /\ Accepts(r) => query'[r].state \notin Pending'
       /\ (InFlight(r) /\ query[r].state \notin Pending) =>
            /\ \A r2 \in Slots \ {r} : Accepts(r2) => query'[r2].state # query[r].state
            /\ (RejectsNow /\ Presents(sent'.query, query[r].state)) =>
                 sent'.response = FailureRedirect(invalid_state)]_vars

\* one callback awaits the token exchange, the other was answered invalid_state
C2_Witness ==
  /\ issued[stateA] = 1
  /\ \E r \in Slots : pc[r] = "exchanging" /\ query[r].state = stateA
  /\ Presents(sent.query, stateA)
  /\ sent.response = FailureRedirect(invalid_state)

\* C3 (as claimed): a callback presenting a pending state older than ten
\* minutes does not pass validation, and the entry is removed all the same.
C3_ExpiredRejected ==
  [][\A e \in sessions :
       (Expired(e, now) /\ Truthy(e.state)) =>
         /\ accepted'[e.state] = accepted[e.state]
         /\ (RejectsNow /\ Presents(sent'.query, e.state)) => e \notin sessions']_vars

C5_FirstCallbackPasses ==
  [][\A s \in Pending :
       ~(RejectsNow /\ Truthy(sent'.query.code) /\ sent'.query.state = s
           /\ sent'.query.error = undefined)]_vars

\* C6: every request that issued the token-exchange POST presented a state
\* that /auth/github had stored and removed that state from the store first;
\* no state is accepted more often than it was stored.
C6_ExchangeOnlyAfterRedirect ==
  /\ \A s \in StateTokens : accepted[s] <= issued[s]
  /\ \A r \in Slots :
       HasOp(trace[r], "POST") =>
         /\ query[r].state \in StateTokens
         /\ issued[query[r].state] > 0
         /\ sessionData[r].state = query[r].state
         /\ trace[r][1] = Event("delete", query[r].state)
  /\ HasOp(sent.trace, "POST") =>
       /\ sent.query.state \in StateTokens
       /\ issued[sent.query.state] > 0
       /\ sent.trace[1] = Event("delete", sent.query.state)

\* a callback awaits the token exchange for the one state that was stored
C6_Witness ==
  \E r \in Slots :
    /\ pc[r] = "exchanging"
    /\ issued[query[r].state] = 1
    /\ accepted[query[r].state] = 1

C8_MissingParameters ==
  [][/\ \A r \in Slots :
          Accepts(r) => Truthy(query'[r].code) /\ Truthy(query'[r].state)
     /\ (sent' # sent /\ ~Truthy(sent'.query.error)
           /\ (~Truthy(sent'.query.code) \/ ~Truthy(sent'.query.state))) =>
          /\ sent'.response = FailureRedirect(missing_code_or_state)
          /\ sent'.trace = <<Event("redirect", missing_code_or_state)>>
          /\ sessions' = sessions
          /\ accepted' = accepted
          /\ pc' = pc /\ trace' = trace]_vars

\* a pending state presented without a code: answered, and still pending
C8_Witness ==
  /\ sent.query.error = undefined
  /\ sent.query.code = undefined
  /\ sent.query.state = stateA
  /\ stateA \in Pending
  /\ sent.response = FailureRedirect(missing_code_or_state)

OwnErrorCodes == {invalid_state, missing_code_or_state, oauth_exchange_failed}

\* C9 (as claimed): the error code of every failure redirect is one of
\* access_denied, invalid_state, missing_code_or_state, oauth_exchange_failed.
C9_ErrorCodeOfFour ==
  sent.response.kind = "failure" =>
    sent.response.error \in OwnErrorCodes \cup {access_denied}

\* C9 (amended): the error code of a failure redirect reads back as the
\* request's own error parameter when that is not empty, and is otherwise
\* one of invalid_state, missing_code_or_state, oauth_exchange_failed.
C9_ErrorCodeOwnOrPassedThrough ==
  sent.response.kind = "failure" =>
    IF Truthy(sent.query.error)
    THEN decodeURIComponent(sent.response.error) = sent.query.error
    ELSE sent.response.error \in OwnErrorCodes

\* an error parameter that is none of the four codes was passed through
C9_Witness ==
  /\ sent.query.error = <<"a", "&">>
  /\ sent.response = FailureRedirect(<<"a", "%", "2", "6">>)

\* C10: the side effects of a callback answered with the success redirect
\* are, in this order: the removal of its state, the token-exchange POST,
\* the identity GET with the token the redirect carries, the redirect.
C10_SuccessSideEffects ==
  sent.response.kind = "success" =>
    sent.trace = <<Event("delete", sent.query.state),
                   Event("POST", sent.query.code),
                   Event("GET", sent.response.access_token),
                   Event("redirect", undefined)>>

\* a callback was answered with the success redirect
C10_Witness ==
  /\ sent.response.kind = "success"
  /\ sent.response.access_token \in AccessTokens
  /\ sent.response.user \in Users

\* C11: the step that follows the token-exchange POST either issues the
\* identity GET, and then the exchange answered 2xx with a non-empty
\* access_token, or answers the callback with oauth_exchange_failed, the
\* identity GET not issued and no access_token in the redirect.
C11_ExchangeFailure ==
  [][\A r \in Slots :
       (pc[r] = "exchanging" /\ pc'[r] # "exchanging") =>
         \/ /\ pc'[r] = "identifying"
            /\ tokenData'[r].ok
            /\ Truthy(tokenData'[r].access_token)
            /\ trace'[r] = Append(trace[r], Event("GET", tokenData'[r].access_token))
         \/ /\ pc'[r] = "idle"
            /\ sent'.query = query[r]
            /\ sent'.response = FailureRedirect(oauth_exchange_failed)
            /\ sent'.trace = Append(trace[r], Event("redirect", oauth_exchange_failed))
            /\ ~HasOp(sent'.trace, "GET")
            /\ sent'.response.access_token = undefined]_vars

\* a callback whose exchange failed: state removed, POST made, no GET
C11_Witness ==
  /\ sent.response = FailureRedirect(oauth_exchange_failed)
  /\ sent.trace = <<Event("delete", sent.query.state),
                    Event("POST", sent.query.code),
                    Event("redirect", oauth_exchange_failed)>>

\* C12 (as claimed): a callback whose identity fetch fails is answered with
\* a code other than that of a failed exchange, and its answer carries the
\* token the exchange issued.
C12_IdentityFailureDistinct ==
  [][\A r \in Slots :
       (pc[r] = "identifying" /\ pc'[r] = "idle" /\ sent'.response.user = undefined) =>
         /\ sent'.response.error # oauth_exchange_failed
         /\ sent'.response.access_token = tokenData[r].access_token]_vars

CatalogueNames == {tools[i].name : i \in DOMAIN tools}

\* the request of the MCP endpoint was a tool call that passed authenticateMCP
\* and named a tool
NamedCall == mcp.route = "call" /\ Truthy(mcp.token) /\ Truthy(mcp.name)

\* C13: a tool call whose name is not in the catalogue is answered 400
\* 'Unknown tool: <name>' without any upstream call, whatever its arguments
\* and its token.
C13_UnknownTool ==
  (NamedCall /\ mcp.name \notin CatalogueNames) =>
    /\ mcp.pc = "answered"
    /\ mcp.response = Json(400, [error |-> UnknownToolPrefix \o mcp.name])
    /\ mcp.requests = <<>>

\* an unknown tool called with all the arguments a tool can require
C13_Witness ==
  /\ mcp.name = unknown_tool
  /\ mcp.token = <<"u">>
  /\ \A k \in {"owner", "repo", "title", "path"} : TruthyMember(mcp.args, k)
  /\ mcp.response.status = 400

\* the arguments lack a parameter the schema of the tool requires
OmitsRequired(tool, args) ==
  \E j \in DOMAIN tool.required : Member(args, tool.required[j]) = <<>>

\* C14 (as claimed): a tool call that omits a required parameter makes no
\* upstream call and is answered with an error, on the HTTP endpoint and on
\* the stdio server.
C14_RequiredEnforced ==
  /\ \A i \in DOMAIN tools :
       (NamedCall /\ mcp.name = tools[i].name /\ OmitsRequired(tools[i], mcp.args)) =>
         /\ mcp.requests = <<>>
         /\ mcp.response.status = 400
  /\ \A r \in StdioSlots, i \in DOMAIN stdioTools :
       (stdio[r].name = stdioTools[i].name /\ OmitsRequired(stdioTools[i], stdio[r].args)) =>
         /\ stdio[r].requests = <<>>
         /\ stdio[r].result.thrown

\* the arguments supply a number outside the bounds the schema declares
OutOfBounds(tool, args) ==
  \E k \in DOMAIN tool.properties :
    LET schema == tool.properties[k] IN
    /\ schema.type = "number"
    /\ Member(args, k) # <<>>
    /\ \/ schema.minimum # <<>> /\ Member(args, k)[1] < schema.minimum[1]
       \/ schema.maximum # <<>> /\ Member(args, k)[1] > schema.maximum[1]

\* the arguments supply a value that is not in the enum the schema declares
NotInEnum(tool, args) ==
  \E k \in DOMAIN tool.properties :
    LET schema == tool.properties[k] IN
    /\ schema.enum # <<>>
    /\ Member(args, k) # <<>>
    /\ \A i \in DOMAIN schema.enum : schema.enum[i] # Member(args, k)[1]

\* C15 (as claimed): a tool call that supplies a number outside the bounds of
\* its schema makes no upstream call and is answered with a validation error.
C15_NumericBoundsEnforced ==
  \A i \in DOMAIN tools :
    (NamedCall /\ mcp.name = tools[i].name /\ OutOfBounds(tools[i], mcp.args)) =>
      /\ mcp.requests = <<>>
      /\ mcp.response.status = 400

\* C16 (as claimed): a tool call that supplies a value outside the enum of
\* its schema makes no upstream call and is answered with a validation error.
C16_EnumEnforced ==
  \A i \in DOMAIN tools :
    (NamedCall /\ mcp.name = tools[i].name /\ NotInEnum(tools[i], mcp.args)) =>
      /\ mcp.requests = <<>>
      /\ mcp.response.status = 400

\* the upstream call of the tool call has settled
Settled == mcp.outcome # <<>>

\* C17 (as claimed): a tool call whose upstream call failed is answered with
\* the result envelope: status 200, isError true, a content item.
C17_FailureEnvelope ==
  (Settled /\ ~mcp.outcome[1].ok) =>
    /\ mcp.response.status = 200
    /\ "isError" \in DOMAIN mcp.response.body
    /\ mcp.response.body.isError = TRUE
    /\ "content" \in DOMAIN mcp.response.body
    /\ Len(mcp.response.body.content) >= 1

\* the one text item that holds JSON.stringify(result, null, 2)
SerializedContent(out) == <<[type |-> text, text |-> JSONStringify(out.data, 0)]>>

\* C18 (as claimed): a tool call whose upstream call succeeded is answered
\* with exactly one text item that holds the serialized response body, and
\* with isError false.
C18_SuccessEnvelopeMarked ==
  (Settled /\ mcp.outcome[1].ok) =>
    /\ mcp.response.body.content = SerializedContent(mcp.outcome[1])
    /\ "isError" \in DOMAIN mcp.response.body
    /\ mcp.response.body.isError = FALSE

\* C18 (amended): a tool call whose upstream call succeeded is answered 200
\* with a body whose only member is content, exactly one text item that
\* holds the serialized response body; the body has no isError member.
C18_SuccessEnvelope ==
  (Settled /\ mcp.outcome[1].ok) =>
    /\ mcp.response.status = 200
    /\ DOMAIN mcp.response.body = {"content"}
    /\ mcp.response.body.content = SerializedContent(mcp.outcome[1])

\* the user object was answered as its indented JSON text
C18_Witness ==
  /\ Settled
  /\ mcp.outcome[1].data = JObject(<< <<<<"l","o","g","i","n">>, JString(<<"o">>)>> >>)
  /\ mcp.response.body.content[1].text = <<"{","\n"," "," ","\"","l","o","g","i","n","\"",":"," ","\"","o","\"","\n","}">>

\* an Authorization header that is absent, empty or a scheme without a token
PresentsNoToken(header) ==
  header \in {undefined, <<>>, Bearer, Bearer \o <<" ">>}

\* C19: a request of /mcp/tools/list or /mcp/tools/call that presents no
\* bearer token is answered 401 'Access token required'; the handler behind
\* authenticateMCP does not run: no tool list, no upstream call.
C19_Unauthorized ==
  (mcp.route \in {"list", "call"} /\ PresentsNoToken(mcp.authorization)) =>
    /\ mcp.pc = "answered"
    /\ mcp.response = Json(401, [error |-> AccessTokenRequired])
    /\ mcp.requests = <<>>
    /\ mcp.token = undefined

\* the tool list was asked for with the scheme word only
C19_Witness ==
  /\ mcp.route = "list"
  /\ mcp.authorization = Bearer
  /\ mcp.response.status = 401

\* the tokens GitHub or the environment gave out
IssuedTokens == {ACCESS_TOKEN} \cup AccessTokens

\* the request goes to the GitHub API, not to the token endpoint
ToApi(request) == request.url # AccessTokenUrl

\* C20 (as claimed): every request to the GitHub API carries the fixed Accept
\* header and the bearer header of a token that was given out; the request
\* of a /mcp/tools/call carries the token of that call, the identity request
\* of a code exchange the token that exchange obtained.
C20_OwnBearerToken ==
  /\ \A n \in DOMAIN mcp.requests :
       /\ mcp.requests[n].headers.Accept = AcceptGithubJson
       /\ mcp.requests[n].headers.Authorization = Bearer \o <<" ">> \o mcp.token
  /\ \A r \in StdioSlots : \A n \in DOMAIN stdio[r].requests :
       LET request == stdio[r].requests[n] IN
       ToApi(request) =>
         /\ request.headers.Accept = AcceptGithubJson
         /\ \E t \in IssuedTokens : request.headers.Authorization = Bearer \o <<" ">> \o t
         /\ stdio[r].tokenData # <<>> =>
              request.headers.Authorization =
                Bearer \o <<" ">> \o String(stdio[r].tokenData[1].access_token)

\* how often the side effect op occurs in a trace
CountOp(tr, op) == Cardinality({i \in DOMAIN tr : tr[i].op = op})

\* C21: a tool call makes at most one upstream call, and exactly one when
\* its upstream call has settled, failed or not; a callback makes at most
\* one token-exchange POST and at most one identity GET, in flight and when
\* it is answered, with a failure or not.
C21_NoRetries ==
  /\ Len(mcp.requests) <= 1
  /\ Settled => mcp.pc = "answered" /\ Len(mcp.requests) = 1
  /\ \A r \in Slots : CountOp(trace[r], "POST") <= 1 /\ CountOp(trace[r], "GET") <= 1
  /\ CountOp(sent.trace, "POST") <= 1
  /\ CountOp(sent.trace, "GET") <= 1

\* a tool call answered 500 after its one upstream call failed, and a
\* callback answered with a failure after its one POST and its one GET
C21_Witness ==
  /\ Settled
  /\ ~mcp.outcome[1].ok
  /\ mcp.response.status = 500
  /\ Len(mcp.requests) = 1
  /\ sent.response.kind = "failure"
  /\ CountOp(sent.trace, "POST") = 1
  /\ CountOp(sent.trace, "GET") = 1

\* C22 (as claimed): the answer to a tool call whose upstream call failed
\* tells the failure kind: its status is not the status the handler
\* answers with after an upstream failure of another status.
C22_FailureKindReported ==
  (Settled /\ ~mcp.outcome[1].ok) =>
    \A other \in UpstreamOutcomes :
      (~other.ok /\ other.status # mcp.outcome[1].status) =>
        ExecutionFailed(other).status # mcp.response.status

\* A request is answered once: the step that ends a callback sends one
\* redirect, for the query of that callback; the step that ends a tool call
\* sends one response, 200 or 500, for that call; a request that arrives is
\* answered in that step (a redirect; 200, 400 or 401) or left awaiting
\* without a response; nothing is sent in any other step.
AnsweredOnce ==
  /\ \A r \in Slots :
       (pc[r] # "idle" /\ pc'[r] = "idle") =>
         /\ sent'.query = query[r]
         /\ sent'.response.kind \in {"success", "failure"}
  /\ sent' # sent =>
       /\ CountOp(sent'.trace, "redirect") = 1
       /\ sent'.trace[Len(sent'.trace)].op = "redirect"
       /\ \/ \E r \in Slots : pc[r] # "idle" /\ pc'[r] = "idle"
          \/ pc' = pc /\ Len(sent'.trace) = 1
  /\ \A r \in Slots : pc'[r] # "idle" => CountOp(trace'[r], "redirect") = 0
  /\ (mcp.pc = "awaiting" /\ mcp' # mcp) =>
       /\ mcp'.pc = "answered"
       /\ mcp'.response.status \in {200, 500}
       /\ mcp'.name = mcp.name /\ mcp'.token = mcp.token /\ mcp'.args = mcp.args
  /\ (mcp.pc # "awaiting" /\ mcp' # mcp) =>
       \/ mcp'.pc = "awaiting" /\ mcp'.response = NoHttpResponse
       \/ mcp'.pc = "answered" /\ mcp'.response.status \in {200, 400, 401}

\* C23: when every outbound call settles, a callback in flight is
\* eventually answered and a tool call that awaits its upstream call is
\* eventually answered; every request is answered once, on every path.
C23_ExactlyOneResponse ==
  /\ \A r \in Slots : (pc[r] # "idle") ~> (pc[r] = "idle")
  /\ (mcp.pc = "awaiting") ~> (mcp.pc = "answered")
  /\ [][AnsweredOnce]_vars

\* a callback was answered with the success redirect and a tool call with
\* the serialized result, each after its outbound calls
C23_Witness ==
  /\ sent.response.kind = "success"
  /\ Len(sent.trace) = 4
  /\ \A r \in Slots : pc[r] = "idle"
  /\ Settled
  /\ mcp.outcome[1].ok
  /\ mcp.response.status = 200

\* C24: every tool list that is answered is the catalogue, the same
\* descriptors in the same order, whatever the token of the request and
\* whatever the callbacks, tool calls and sweeps before it left behind.
C24_CatalogueStable ==
  (mcp.route = "list" /\ Truthy(mcp.token)) =>
    mcp.response = Json(200, [tools |-> tools])

\* the list was answered for the second token, after a callback was
\* accepted and the reaper has run, with a state pending
C24_Witness ==
  /\ mcp.route = "list"
  /\ mcp.token = <<"u">>
  /\ mcp.response.status = 200
  /\ Len(mcp.response.body.tools) = 8
  /\ accepted[stateA] = 1
  /\ nextSweep > TenMinutes
  /\ sessions # {}

\* the arguments with every parameter that is absent and has a default in
\* the schema of the tool set to that default
WithDefaults(tool, args) ==
  LET given == IF args = <<>> THEN NoArgs ELSE args[1] IN
  <<[k \in ArgNames |->
       IF k \in DOMAIN tool.properties /\ given[k] = <<>>
       THEN tool.properties[k].default
       ELSE given[k]]>>

\* C25 (as claimed): the upstream request of a tool call is the request the
\* handler builds for the same call with the defaults of the schema
\* supplied for the parameters the call omits.
C25_DefaultsApplied ==
  \A i \in DOMAIN tools :
    (NamedCall /\ mcp.name = tools[i].name /\ mcp.requests # <<>>) =>
      LET d == Dispatch(mcp.name, WithDefaults(tools[i], mcp.args)) IN
      mcp.requests[1] = callGitHubAPI(mcp.token, d.endpoint, d.method, d.data)

(* what the receiver of a request reads from its query string *)
\* the place of the first occurrence of the string p in s; 0 when there is none
IndexOf(s, p) ==
  LET places == {i \in 1..(Len(s) - Len(p) + 1) : SubSeq(s, i, i + Len(p) - 1) = p} IN
  IF places = {} THEN 0 ELSE CHOOSE i \in places : \A j \in places : i <= j

\* the part of s before the first p (all of s when there is none), and the
\* part after it (none: <<>>)
Before(s, p) == IF IndexOf(s, p) = 0 THEN s ELSE SubSeq(s, 1, IndexOf(s, p) - 1)

After(s, p) ==
  IF IndexOf(s, p) = 0 THEN <<>> ELSE SubSeq(s, IndexOf(s, p) + Len(p), Len(s))

\* the character an escape of the form encoding stands for
FormUnescapeChar(e) ==
  CASE e = <<"%", "2", "6">> -> "&"
    [] e = <<"%", "3", "D">> -> "="
    [] e = <<"%", "2", "B">> -> "+"
    [] e = <<"%", "2", "5">> -> "%"
    [] e = <<"%", "2", "C">> -> ","
    [] e = <<"%", "2", "F">> -> "/"
    [] e = <<"%", "3", "F">> -> "?"
    [] e = <<"%", "2", "0">> -> " "
    [] e = <<"%", "3", "A">> -> ":"
    [] OTHER -> "?"

RECURSIVE FormDecode(_)
FormDecode(s) ==
  IF s = <<>> THEN <<>>
  ELSE IF Head(s) = "+" THEN <<" ">> \o FormDecode(Tail(s))
  ELSE IF Head(s) = "%" /\ Len(s) >= 3
       THEN <<FormUnescapeChar(SubSeq(s, 1, 3))>> \o FormDecode(SubSeq(s, 4, Len(s)))
       ELSE <<Head(s)>> \o FormDecode(Tail(s))

\* the <<key, value>> pairs of a query string, in order
RECURSIVE ParseQuery(_)
ParseQuery(s) ==
  IF s = <<>> THEN <<>>
  ELSE LET part == Before(s, <<"&">>) IN
       (IF part = <<>> THEN <<>>
        ELSE <<<<FormDecode(Before(part, <<"=">>)), FormDecode(After(part, <<"=">>))>>>>)
       \o ParseQuery(After(s, <<"&">>))

RepositoryParams == {"type", "sort", "per_page"}

UserRepos == ApiBase \o <<"u","s","e","r","/","r","e","p","o","s">>

\* the request of a list_repositories call goes to GET user/repos, and its
\* query string holds one pair for each parameter of type, sort and
\* per_page in supplied, with the value of the arguments, and no other pair
RoutedWith(supplied) ==
  LET request == mcp.requests[1]
      pairs == ParseQuery(After(request.url, <<"?">>))
  IN
  /\ request.method = "GET"
  /\ Before(request.url, <<"?">>) = UserRepos
  /\ request.data = <<>>
  /\ Len(pairs) = Cardinality(supplied)
  /\ \A k \in supplied : \E j \in DOMAIN pairs : pairs[j][1] = KeyString(k)
  /\ \A j \in DOMAIN pairs :
       \E k \in supplied : pairs[j] = <<KeyString(k), MemberString(mcp.args, k)>>

ListRepositoriesCall == NamedCall /\ mcp.name = list_repositories

ValueOf(pairs, key) ==
  LET places == {j \in DOMAIN pairs : pairs[j][1] = key} IN
  IF places = {} THEN undefined
  ELSE pairs[CHOOSE j \in places : \A i \in places : j <= i][2]

\* the scopes a scope value stands for: its parts between spaces and commas
RECURSIVE ScopeSet(_)
ScopeSet(s) ==
  LET space == IndexOf(s, <<" ">>)
      comma == IndexOf(s, <<",">>)
      cut == IF space = 0 THEN comma
             ELSE IF comma = 0 \/ space < comma THEN space ELSE comma
  IN
  IF s = <<>> THEN {}
  ELSE IF cut = 0 THEN {s}
  ELSE (IF cut = 1 THEN {} ELSE {SubSeq(s, 1, cut - 1)})
       \cup ScopeSet(SubSeq(s, cut + 1, Len(s)))

Elements(items) == {items[i] : i \in DOMAIN items}

\* the string member key of the object that text is the JSON of
JSONStringMember(json, key) ==
  Before(After(json, <<"\"">> \o key \o <<"\"", ":", " ", "\"">>), <<"\"">>)

\* the query string of the URL a github_get_oauth_url invocation returned
ReturnedQuery(r) ==
  ParseQuery(After(JSONStringMember(stdio[r].result.body.content[1].text,
                                    AuthorizationUrlKey), <<"?">>))

\* C27: the query string of the URL /auth/github redirects to reads back
\* as a scope value with the scopes of the request and as the state the
\* handler stored; the query string of the URL github_get_oauth_url returns
\* reads back as a scope value with the scopes of the arguments (repo and
\* user when there are none) and as the state of the arguments, or the
\* state the handler made and returned when the arguments have none.
C27_UrlRoundTrip ==
  /\ redirect # <<>> =>
       LET pairs == ParseQuery(After(redirect[1].location, <<"?">>)) IN
       /\ ScopeSet(ValueOf(pairs, ScopeKey)) = ScopeSet(redirect[1].scopes)
       /\ ValueOf(pairs, StateKey) = redirect[1].state
       /\ sessionsHas(sessions, redirect[1].state) \/ accepted[redirect[1].state] > 0
  /\ \A r \in StdioSlots :
       (stdio[r].name = github_get_oauth_url /\ stdio[r].pc = "answered") =>
         /\ ~stdio[r].result.thrown
         /\ ScopeSet(ValueOf(ReturnedQuery(r), ScopeKey)) =
              (IF Member(stdio[r].args, "scopes") = <<>>
               THEN {<<"r","e","p","o">>, <<"u","s","e","r">>}
               ELSE Elements(Member(stdio[r].args, "scopes")[1]))
         /\ ValueOf(ReturnedQuery(r), StateKey) =
              JSONStringMember(stdio[r].result.body.content[1].text, StateKey)
         /\ TruthyMember(stdio[r].args, "state") =>
              ValueOf(ReturnedQuery(r), StateKey) = Member(stdio[r].args, "state")[1]

\* both handlers built the URL for a scope with a reserved character, the
\* stdio handler for a state with one
C27_Witness ==
  /\ redirect # <<>>
  /\ redirect[1].scopes = <<"a","&","b">>
  /\ \E r \in StdioSlots :
       /\ stdio[r].name = github_get_oauth_url
       /\ Member(stdio[r].args, "state") = <<<<"s","=","1">>>>
       /\ ValueOf(ReturnedQuery(r), ScopeKey) = <<"a","&","b">>

\* an exchange request is in progress: a callback in flight, or an
\* invocation of github_exchange_code that has not returned
ExchangeInProgress ==
  \/ \E r \in Slots : ~Idle(r)
  \/ \E r \in StdioSlots :
       stdio[r].name = github_exchange_code /\ stdio[r].pc \in {"exchanging", "initializing"}

\* C28 (as claimed): while no exchange request is in progress, no variable
\* of the servers holds an access token an exchange obtained: not the
\* entries of the State Store, not the locals of the callback handlers, not
\* the default Authorization header of the stdio server's API client.
C28_TokenNotKept ==
  ~ExchangeInProgress =>
    \A t \in AccessTokens :
      /\ \A e \in sessions : e.state # t /\ e.scopes # t
      /\ \A r \in Slots : tokenData[r].access_token # t
      /\ authorization # Bearer \o <<" ">> \o t

\* the strings a line of the log holds
LoggedStrings(line) ==
  {line.label, line.error.message}
  \cup (IF "config" \in DOMAIN line.error
        THEN {line.error.config.url,
              line.error.config.headers.Authorization,
              line.error.config.headers.Accept,
              line.error.config.headers.UserAgent}
        ELSE {})

\* the string is the token or ends with the token as a word
Discloses(s, token) ==
  \/ s = token
  \/ /\ Len(s) > Len(token)
     /\ SubSeq(s, Len(s) - Len(token), Len(s)) = <<" ">> \o token

\* C29 (as claimed): no line the handler of a tool call writes to the log
\* holds the bearer token of the call.
C29_TokenNotLogged ==
  (mcp.route = "call" /\ Truthy(mcp.token)) =>
    \A n \in DOMAIN mcp.log : \A s \in LoggedStrings(mcp.log[n]) : ~Discloses(s, mcp.token)

\* the bits of entropy a token of base-36 digits holds at most: a digit is
\* one of 36 values, fewer than 2^6
TokenBits(s) == Len(s) * 6

\* C30 (as claimed): every state token /auth/github stored holds at least
\* 128 bits of entropy.
C30_StateTokenEntropy ==
  \A s \in StateTokens : issued[s] > 0 => TokenBits(s) >= 128

\* C31 (as claimed): an /auth/github request leaves every entry that is in
\* the store in it, as it was: it never replaces or refreshes the entry of an
\* authorization that is still pending.
C31_PendingNotReplaced ==
  [][issued' # issued => \A e \in sessions : e \in sessions']_vars

\* callback r passes the state validation in this step
AcceptedNow(r) == pc[r] = "idle" /\ pc'[r] = "exchanging"

\* callback r is answered with the success redirect in this step
SucceedsNow(r) ==
  pc[r] = "identifying" /\ pc'[r] = "idle" /\ sent'.response.kind = "success"

\* C32 (as claimed): the scope of the success redirect is the scope of the
\* token exchange when that is non-empty, and otherwise the scopes stored
\* with the state when the callback was accepted; those are the scopes
\* (or the default 'repo,user') of every redirect pending with the state, so
\* never the scopes of a different pending authorization.
C32_ScopeOfOwnAuthorization ==
  [][\A r \in Slots :
       /\ SucceedsNow(r) =>
            sent'.response.scope =
              IF Truthy(tokenData[r].scope) THEN tokenData[r].scope
              ELSE sessionData[r].scopes
       /\ AcceptedNow(r) =>
            {Or(p, repo_user) : p \in requested[query'[r].state]}
              = {sessionData'[r].scopes}]_vars

\* callback r is answered by the catch block in this step
FailsNow(r) ==
  pc[r] # "idle" /\ pc'[r] = "idle" /\ sent'.response.error = CatchCode

\* the callback answered last went through the catch block
FailedLast ==
  sent.response.kind = "failure" /\ sent.response.error = CatchCode /\ Len(sent.trace) > 1

\* a callback with the query of the callback answered last is rejected
\* before its first await in this step
RetryRejectedNow ==
  sent' # sent /\ sent'.query = sent.query /\ Len(sent'.trace) = 1

SweepsNow == nextSweep' # nextSweep

\* C34: a sweep removes exactly the entries older than ten minutes: every
\* entry whose age is at most ten minutes is in the store after the sweep,
\* unchanged, and no other entry is.
C34_SweepEvictsOnlyExpired ==
  [][SweepsNow => sessions' = {e \in sessions : now - e.timestamp <= TenMinutes}]_vars

\* the sweep at twenty minutes evicted one entry and left an entry of exactly
\* ten minutes in the store
C34_Witness ==
  /\ now = 2 * TenMinutes
  /\ nextSweep > now
  /\ \E e \in sessions : now - e.timestamp = TenMinutes
  /\ \E s \in StateTokens : issued[s] = 1 /\ accepted[s] = 0 /\ s \notin Pending

\* the answer of the first check of /mcp/tools/call the request fails, in
\* the order token, tool name, tool known, required arguments; <<>> when it
\* fails none
FirstFailure(header, name, args) ==
  IF ~Truthy(BearerToken(header)) THEN <<Json(401, [error |-> AccessTokenRequired])>>
  ELSE IF ~Truthy(name) THEN <<Json(400, [error |-> ToolNameIsRequired])>>
  ELSE IF name \notin CatalogueNames THEN <<Json(400, [error |-> UnknownToolPrefix \o name])>>
  ELSE LET tool == tools[CHOOSE i \in DOMAIN tools : tools[i].name = name] IN
       IF OmitsRequired(tool, args) THEN <<Json(400, [error |-> Dispatch(name, args).error])>>
       ELSE <<>>

\* C35: a tool call that fails a check is answered with the error of the
\* first check it fails, in the order token (401), tool name (400), tool
\* known and required arguments present (400), and makes no upstream call;
\* an upstream call is made only for a request that fails none.
C35_ChecksInOrder ==
  mcp.route = "call" =>
    LET failure == FirstFailure(mcp.authorization, mcp.name, mcp.args) IN
    /\ failure # <<>> =>
         /\ mcp.pc = "answered"
         /\ mcp.response = failure[1]
         /\ mcp.requests = <<>>
         /\ mcp.outcome = <<>>
    /\ mcp.requests # <<>> => failure = <<>>

\* a request without a token, without a tool name and without arguments was
\* answered 401
C35_Witness ==
  /\ mcp.route = "call"
  /\ mcp.authorization = Bearer
  /\ mcp.name = undefined
  /\ mcp.args = <<>>
  /\ mcp.response.status = 401

\* the arguments lack one of the parameters, or hold a falsy value for it
LacksOneOf(args, required) ==
  \E j \in DOMAIN required : ~TruthyMember(args, required[j])

\* the names of the stdio catalogue that the model holds
StdioCatalogueNames ==
  {github_get_oauth_url} \cup {stdioTools[i].name : i \in DOMAIN stdioTools}

\* C36 (as claimed): on both servers a tool call answers 'Unknown tool'
\* exactly for the names that are not in the listing of the server, and a call
\* of a listed tool is rejected before any upstream request exactly when it
\* lacks a parameter the listed schema marks required.
C36_CatalogueAgrees ==
  /\ NamedCall =>
       /\ mcp.name \in CatalogueNames
            <=> mcp.response # Json(400, [error |-> UnknownToolPrefix \o mcp.name])
       /\ \A i \in DOMAIN tools :
            mcp.name = tools[i].name =>
              (LacksOneOf(mcp.args, tools[i].required)
                 <=> mcp.requests = <<>> /\ mcp.response.status = 400)
  /\ \A r \in StdioSlots :
       Truthy(stdio[r].name) =>
         /\ stdio[r].name \in StdioCatalogueNames
              <=> stdio[r].result # Thrown("McpError", UnknownToolStdio \o stdio[r].name)
         /\ \A i \in DOMAIN stdioTools :
              (stdio[r].name = stdioTools[i].name
                 /\ LacksOneOf(stdio[r].args, stdioTools[i].required)) =>
                stdio[r].requests = <<>>

\* s.split(' '): the fields of s between its spaces
RECURSIVE Split(_, _, _)
Split(s, n, field) ==
  IF n > Len(s) THEN <<field>>
  ELSE IF s[n] = " " THEN <<field>> \o Split(s, n + 1, <<>>)
  ELSE Split(s, n + 1, Append(field, s[n]))

\* the Authorization header has a second field and it is not empty
HasSecondField(header) ==
  /\ header # undefined
  /\ Len(Split(header, 1, <<>>)) >= 2
  /\ Split(header, 1, <<>>)[2] # <<>>

\* C37: a request of the MCP endpoint is let through by authenticateMCP
\* exactly when its Authorization header has a non-empty second field between
\* spaces, whatever the first field is; that field is req.token, and the
\* upstream request carries it as its bearer token.
C37_SecondFieldIsToken ==
  mcp.route \in {"list", "call"} =>
    /\ HasSecondField(mcp.authorization)
         <=> mcp.response # Json(401, [error |-> AccessTokenRequired])
    /\ HasSecondField(mcp.authorization) =>
         /\ mcp.token = Split(mcp.authorization, 1, <<>>)[2]
         /\ \A n \in DOMAIN mcp.requests :
              mcp.requests[n].headers.Authorization
                = Bearer \o <<" ">> \o Split(mcp.authorization, 1, <<>>)[2]

\* a tool call with the scheme Basic made its upstream request with the
\* second field of the header as bearer token
C37_Witness ==
  /\ mcp.route = "call"
  /\ mcp.authorization = <<"B","a","s","i","c"," ","t">>
  /\ mcp.requests # <<>>
  /\ mcp.requests[1].headers.Authorization = Bearer \o <<" ", "t">>

\* no invocation is between setting the token and the answer of GET /user
NoIdentityFetchInProgress == \A r \in StdioSlots : stdio[r].pc # "initializing"

\* C38 (as claimed): a successful github_exchange_code result reports the
\* identity of the account of the token it reports, and whenever no identity
\* fetch is in progress currentUser is the identity of the account of the
\* token in the Authorization header of the shared API client.
C38_UserOfToken ==
  /\ \A r \in StdioSlots :
       (stdio[r].pc = "answered" /\ stdio[r].name = github_exchange_code
          /\ stdio[r].tokenData # <<>> /\ ~stdio[r].result.thrown) =>
         /\ AccountOf(Bearer \o <<" ">> \o String(stdio[r].tokenData[1].access_token)) # <<>>
         /\ stdio[r].result.body.content =
              TextContent(JSONStringify(ExchangeResult(stdio[r].tokenData[1],
                <<Identity(AccountOf(Bearer \o <<" ">>
                     \o String(stdio[r].tokenData[1].access_token))[1])>>), 0))
  /\ (NoIdentityFetchInProgress /\ currentUser # <<>>) =>
       /\ AccountOf(authorization) # <<>>
       /\ currentUser[1] = Identity(AccountOf(authorization)[1])

(* --------------------------- the browser client ------------------------ *)
\* JSON.stringify(value) of null, a string, or an object of such members
RECURSIVE JSONCompact(_)
JSONCompact(value) ==
  CASE value.t = "null" -> <<"n","u","l","l">>
    [] value.t = "string" -> <<"\"">> \o JSONQuote(value.v) \o <<"\"">>
    [] value.t = "object" ->
         <<"{">>
         \o Join([i \in DOMAIN value.v |->
                    <<"\"">> \o JSONQuote(value.v[i][1]) \o <<"\"">> \o <<":">>
                    \o JSONCompact(value.v[i][2])], <<",">>)
         \o <<"}">>

\* the text between the quotes of a JSON string without escapes; <<>> when
\* s is no such string, else the text in a sequence
Unquote(s) ==
  IF Len(s) >= 2 /\ s[1] = "\"" /\ s[Len(s)] = "\""
       /\ \A i \in 2..(Len(s) - 1) : s[i] \notin {"\"", "\\"}
  THEN <<SubSeq(s, 2, Len(s) - 1)>>
  ELSE <<>>

\* the members of the text between the braces of an object whose values are
\* strings; <<>> when the text is no such list, else the members in a sequence
RECURSIVE ParseMembers(_)
ParseMembers(s) ==
  LET key == Unquote(Before(s, <<":">>))
      rest == After(s, <<":">>)
      val == Unquote(Before(rest, <<",">>))
      more == IF IndexOf(rest, <<",">>) = 0 THEN << <<>> >>
              ELSE ParseMembers(After(rest, <<",">>))
  IN
  IF key = <<>> \/ val = <<>> \/ more = <<>> THEN <<>>
  ELSE << << <<key[1], JString(val[1])>> >> \o more[1] >>

\* JSON.parse(s) for the texts null, a string and an object of strings: the
\* value in a sequence, or <<>> for the SyntaxError it throws
JSONParse(s) ==
  IF s = <<"n","u","l","l">> THEN <<JNull>>
  ELSE IF Unquote(s) # <<>> THEN <<JString(Unquote(s)[1])>>
  ELSE IF Len(s) >= 2 /\ s[1] = "{" /\ s[Len(s)] = "}"
  THEN IF Len(s) = 2 THEN <<JObject(<<>>)>>
       ELSE LET members == ParseMembers(SubSeq(s, 2, Len(s) - 1)) IN
            IF members = <<>> THEN <<>> ELSE <<JObject(members[1])>>
  ELSE <<>>

\* a string that is there and not empty: if (scope), storedToken && storedUser
TruthyString(v) == v # <<>> /\ v[1] # <<>>

\* new GitHubOAuthApp(): the fields of the app; localStorage is what the
\* browser kept
constructor(c) == [c EXCEPT !.accessToken = <<>>, !.user = JNull]

\* handleAuthSuccess(accessToken, user, scope): the app after the call, and
\* whether the call threw; showDashboard() reads this.user.avatar_url and
\* throws a TypeError when user is null, after the fields and localStorage
\* were written
handleAuthSuccess(c, accessToken, user, scope) ==
  [app |-> [c EXCEPT
              !.accessToken = <<accessToken>>,
              !.user = user,
              !.storage = [k \in StorageKeys |->
                 CASE k = "github_access_token" -> <<accessToken>>
                   [] k = "github_user" -> <<JSONCompact(user)>>
                   [] k = "github_scope" ->
                        IF TruthyString(scope) THEN scope ELSE c.storage[k]]],
   thrown |-> user = JNull]

\* clearStoredAuth()
clearStoredAuth(c) == [c EXCEPT !.storage = NoStorage]

\* checkURLParams(): the redirect of a successful authorization is taken
\* over; an error in it is caught and shown
checkURLParams(c, params) ==
  IF params.success = <<<<"t","r","u","e">>>>
       /\ TruthyString(params.access_token) /\ TruthyString(params.user)
  THEN IF JSONParse(params.user[1]) = <<>> THEN c
       ELSE handleAuthSuccess(c, params.access_token[1], JSONParse(params.user[1])[1],
                              params.scope).app
  ELSE c

\* loadStoredAuth()
loadStoredAuth(c) ==
  LET storedToken == c.storage["github_access_token"]
      storedUser == c.storage["github_user"]
  IN
  IF TruthyString(storedToken) /\ TruthyString(storedUser)
  THEN IF JSONParse(storedUser[1]) = <<>> THEN clearStoredAuth(c)
       ELSE LET h == handleAuthSuccess(c, storedToken[1], JSONParse(storedUser[1])[1], <<>>)
            IN IF h.thrown THEN clearStoredAuth(h.app) ELSE h.app
  ELSE c

\* disconnect()
disconnect(c) == [clearStoredAuth(c) EXCEPT !.accessToken = <<>>, !.user = JNull]

\* window.location.search of the page: the parameters of the redirect that
\* ends an authorization, each absent or a string
ClientTokens == {<<"t">>, <<"u">>, <<"v">>}
UserTexts ==
  {JSONCompact(Identity(<<"o">>)), JSONCompact(Identity(<<"p">>)),
   JSONCompact(JObject(<<>>)), JSONCompact(JNull), <<"{">>, <<>>}
ScopeTexts == {<<>>, <<<<>>>>, <<repo_user>>, <<<<"u","s","e","r">>>>, <<<<"r","e","p","o">>>>}
UrlParams ==
  [success : {<<>>, <<<<"t","r","u","e">>>>},
   access_token : {<<>>} \cup {<<tok>> : tok \in ClientTokens},
   user : {<<>>} \cup {<<txt>> : txt \in UserTexts},
   scope : ScopeTexts]

\* the page is loaded: new GitHubOAuthApp() and its init(), which runs
\* checkURLParams() and then loadStoredAuth()
PageLoad ==
  /\ \E params \in UrlParams :
       client' = [loadStoredAuth(checkURLParams(constructor(client), params))
                    EXCEPT !.op = "init"]
  /\ UNCHANGED <<oauthVars, mcpVars, stdioVars>>

\* the stored authorization is loaded again, on the page that is open
LoadStoredAuth ==
  /\ client.op # "none"
  /\ client' = [loadStoredAuth(client) EXCEPT !.op = "loadStoredAuth"]
  /\ UNCHANGED <<oauthVars, mcpVars, stdioVars>>

\* handleAuthSuccess is called on the page that is open, with what the
\* redirect of an authorization can hold; its caller catches what it throws
HandleAuthSuccess ==
  /\ client.op # "none"
  /\ \E tok \in ClientTokens, txt \in UserTexts, scope \in ScopeTexts :
       /\ JSONParse(txt) # <<>>
       /\ client' = [handleAuthSuccess(client, tok, JSONParse(txt)[1], scope).app
                       EXCEPT !.op = "handleAuthSuccess"]
  /\ UNCHANGED <<oauthVars, mcpVars, stdioVars>>

\* the Disconnect button
Disconnect ==
  /\ client.op # "none"
  /\ client' = [disconnect(client) EXCEPT !.op = "disconnect"]
  /\ UNCHANGED <<oauthVars, mcpVars, stdioVars>>

NextClient ==
  \/ PageLoad
  \/ LoadStoredAuth
  \/ HandleAuthSuccess
  \/ Disconnect

SpecClient == Init /\ [][NextClient]_vars

\* C39 (as claimed): after init() and after each of handleAuthSuccess,
\* loadStoredAuth and disconnect, accessToken is non-null exactly when localStorage holds
\* github_access_token, and then with the same value; after disconnect
\* accessToken and user are null and none of the three keys is stored; a
\* loadStoredAuth that finds a github_user that does not parse leaves none of
\* the three keys stored.
C39_TokenMatchesStorage ==
  [][/\ client'.op # "none" =>
          client'.accessToken = client'.storage["github_access_token"]
     /\ client'.op = "disconnect" =>
          /\ client'.accessToken = <<>>
          /\ client'.user = JNull
          /\ client'.storage = NoStorage
     /\ (client'.op = "loadStoredAuth"
           /\ TruthyString(client.storage["github_access_token"])
           /\ TruthyString(client.storage["github_user"])
           /\ JSONParse(client.storage["github_user"][1]) = <<>>) =>
          client'.storage = NoStorage]_vars

====
